---- MODULE Spec2Model ----
(***************************************************************************)
(* Duplicate-question detection and clustering engine                      *)
(* (backend/processing/duplicate_detector.py and                           *)
(*  backend/processing/optimized_duplicate_detector.py).                   *)
(*                                                                         *)
(* A text is a sequence of one-character strings.  A similarity signal is  *)
(* an integer in units of 1/SCALE; a combined similarity and a decision    *)
(* threshold are integers in units of 1/(10*SCALE), so that the weights    *)
(* 0.3, 0.4, 0.2, 0.1 are the integers 3, 4, 2, 1.                         *)
(***************************************************************************)
EXTENDS Integers, Sequences, FiniteSets, TLC

\* ---------------------------------------------------------------------
\* Bounds
\* ---------------------------------------------------------------------
MaxLen == 4          \* longest input list of records

\* fixed-point unit of one similarity signal (1.0 == SCALE)
SCALE == 10000

\* ---------------------------------------------------------------------
\* Generic helpers on sequences and sets
\* ---------------------------------------------------------------------
Range(s) == { s[i] : i \in 1..Len(s) }

\* the sequence s with its elements evaluated once
List(s) == SubSeq(s, 1, Len(s))

\* the function f with its values evaluated once
Table(f) == f @@ <<>>

RECURSIVE SetToSeq(_)
SetToSeq(S) ==
    IF S = {} THEN <<>>
    ELSE LET x == CHOOSE y \in S : TRUE IN <<x>> \o SetToSeq(S \ {x})

RECURSIVE SumSeq(_)
SumSeq(s) == IF s = <<>> THEN 0 ELSE Head(s) + SumSeq(Tail(s))

RECURSIVE JoinSp(_)
\* ' '.join(list)
JoinSp(l) ==
    IF l = <<>> THEN <<>>
    ELSE IF Len(l) = 1 THEN l[1]
    ELSE l[1] \o <<" ">> \o JoinSp(Tail(l))

\* ---------------------------------------------------------------------
\* Characters
\* ---------------------------------------------------------------------
UpperToLower ==
    [c \in {"A","B","C","D","E","F","G","H","I","J","K","L","M","N","O","P",
            "Q","R","S","T","U","V","W","X","Y","Z"} |->
        CASE c = "A" -> "a" [] c = "B" -> "b" [] c = "C" -> "c" [] c = "D" -> "d"
          [] c = "E" -> "e" [] c = "F" -> "f" [] c = "G" -> "g" [] c = "H" -> "h"
          [] c = "I" -> "i" [] c = "J" -> "j" [] c = "K" -> "k" [] c = "L" -> "l"
          [] c = "M" -> "m" [] c = "N" -> "n" [] c = "O" -> "o" [] c = "P" -> "p"
          [] c = "Q" -> "q" [] c = "R" -> "r" [] c = "S" -> "s" [] c = "T" -> "t"
          [] c = "U" -> "u" [] c = "V" -> "v" [] c = "W" -> "w" [] c = "X" -> "x"
          [] c = "Y" -> "y" [] c = "Z" -> "z"]

LowerLetters ==
    {"a","b","c","d","e","f","g","h","i","j","k","l","m","n","o","p",
     "q","r","s","t","u","v","w","x","y","z"}

Digits == {"0","1","2","3","4","5","6","7","8","9"}

\* \s of the regular expressions
IsSpace(c) == c \in {" ", "\n", "\t", "\r"}

\* \w of the regular expressions
IsWordChar(c) == c \in LowerLetters \cup DOMAIN UpperToLower \cup Digits \cup {"_"}

\* str.lower()
Lower(t) == List([i \in 1..Len(t) |-> IF t[i] \in DOMAIN UpperToLower
                                      THEN UpperToLower[t[i]] ELSE t[i]])

RECURSIVE LStrip(_)
LStrip(t) == IF t # <<>> /\ IsSpace(Head(t)) THEN LStrip(Tail(t)) ELSE t

RECURSIVE RStrip(_)
RStrip(t) == IF t # <<>> /\ IsSpace(t[Len(t)])
             THEN RStrip(SubSeq(t, 1, Len(t) - 1)) ELSE t

\* str.strip()
Strip(t) == RStrip(LStrip(t))

RECURSIVE CollapseSpaces(_)
\* re.sub(r'\s+', ' ', text)
CollapseSpaces(t) ==
    IF t = <<>> THEN <<>>
    ELSE IF IsSpace(Head(t))
         THEN <<" ">> \o CollapseSpaces(LStrip(Tail(t)))
         ELSE <<Head(t)>> \o CollapseSpaces(Tail(t))

\* re.sub(r'[^\w\s\?]', ' ', text)
PunctToSpace(t) ==
    List([i \in 1..Len(t) |-> IF IsWordChar(t[i]) \/ IsSpace(t[i]) \/ t[i] = "?"
                              THEN t[i] ELSE " "])

RECURSIVE SplitAcc(_, _)
SplitAcc(t, cur) ==
    IF t = <<>> THEN (IF cur = <<>> THEN <<>> ELSE <<cur>>)
    ELSE IF IsSpace(Head(t))
         THEN (IF cur = <<>> THEN <<>> ELSE <<cur>>) \o SplitAcc(Tail(t), <<>>)
         ELSE SplitAcc(Tail(t), Append(cur, Head(t)))

\* str.split(): the list of whitespace-separated words
Split(t) == SplitAcc(t, <<>>)

\* ---------------------------------------------------------------------
\* TextNormalizer
\* ---------------------------------------------------------------------
\* The values of a record's fields: a str is the sequence of its characters,
\* a float (a numeric or blank spreadsheet cell) is the tag "float" and its
\* literal
Float(literal) == <<"float", literal>>

NaN == Float("nan")

\* isinstance(value, str)
IsStr(value) == value = <<>> \/ value[1] # "float"

\* bool(value): the empty str and 0.0 are false
Truthy(value) == value # <<>> /\ value # Float("0.0")

\* ---------------------------------------------------------------------
\* normalize_text: lowercase, collapse whitespace, punctuation (except the
\* question mark) to blanks, collapse and strip again
normalize_text(text) ==
    IF text = <<>> \/ ~IsStr(text) THEN <<>>
    ELSE LET t1 == Strip(Lower(text))
             t2 == CollapseSpaces(t1)
             t3 == PunctToSpace(t2)
         IN  Strip(CollapseSpaces(t3))

\* ---------------------------------------------------------------------
\* Keyword extraction
\* ---------------------------------------------------------------------
\* nltk stop words of more than two letters that the modelled texts use
StopWords ==
    { <<"t","h","e">>, <<"a","n","d">>, <<"a","r","e">>,
      <<"w","h","a","t">>, <<"d","o","e","s">> }

\* string.punctuation (without the backquote, which no modelled text holds)
PunctChars ==
    {"!", "\"", "#", "$", "%", "&", "'", "(", ")", "*", "+", ",", "-", ".",
     "/", ":", ";", "<", "=", ">", "?", "@", "[", "\\", "]", "^", "_",
     "{", "|", "}", "~"}

\* token in string.punctuation (a substring test; after normalization a
\* token holding a punctuation character is a single character)
InPunctuation(token) == Len(token) = 1 /\ token[1] \in PunctChars

\* word_tokenize on normalized text: blanks separate tokens and every
\* question mark is a token of its own
word_tokenize(t) ==
    LET RECURSIVE Pad(_)
        Pad(u) == IF u = <<>> THEN <<>>
                  ELSE IF Head(u) = "?" THEN <<" ", "?", " ">> \o Pad(Tail(u))
                  ELSE <<Head(u)>> \o Pad(Tail(u))
    IN  Split(Pad(t))

EndsWith(w, suf) ==
    Len(w) >= Len(suf) /\ SubSeq(w, Len(w) - Len(suf) + 1, Len(w)) = suf

\* PorterStemmer.stem, step 1a (plural endings); the modelled vocabulary has
\* no other suffix the stemmer rewrites
stem(w) ==
    IF Len(w) <= 2 THEN w
    ELSE IF EndsWith(w, <<"s","s","e","s">>) THEN SubSeq(w, 1, Len(w) - 2)
    ELSE IF EndsWith(w, <<"i","e","s">>) THEN SubSeq(w, 1, Len(w) - 2)
    ELSE IF EndsWith(w, <<"s","s">>) THEN w
    ELSE IF EndsWith(w, <<"s">>) THEN SubSeq(w, 1, Len(w) - 1)
    ELSE w

\* extract_keywords: tokens longer than two characters that are neither
\* stop words nor punctuation, each with its stem
extract_keywords(text) ==
    LET Kept(tokens) == { tokens[i] : i \in { k \in 1..Len(tokens) :
                            /\ Len(tokens[k]) > 2
                            /\ tokens[k] \notin StopWords
                            /\ ~InPunctuation(tokens[k]) } }
        WithStems(kept) == kept \cup { stem(w) : w \in kept }
    IN  WithStems(Kept(word_tokenize(normalize_text(text))))

\* ---------------------------------------------------------------------
\* SignalScorers
\* ---------------------------------------------------------------------
\* len(intersection) / len(first set) in place of the Jaccard index
JaccardOverFirst(S1, S2) ==
    IF S1 = {} THEN 0
    ELSE (Cardinality(S1 \cap S2) * SCALE) \div Cardinality(S1)

\* len(intersection) / len(union) in units of 1/SCALE
Jaccard(S1, S2) ==
    IF S1 \cup S2 = {} THEN 0
    ELSE (Cardinality(S1 \cap S2) * SCALE) \div Cardinality(S1 \cup S2)

\* calculate_exact_similarity
calculate_exact_similarity(q1, q2) ==
    LET OfWords(words1, words2) ==
            IF words1 = {} \/ words2 = {} THEN 0 ELSE Jaccard(words1, words2)
        OfNormalized(norm1, norm2) ==
            IF norm1 = norm2 THEN SCALE
            ELSE OfWords(Range(Split(norm1)), Range(Split(norm2)))
    IN  OfNormalized(normalize_text(q1), normalize_text(q2))

\* calculate_keyword_similarity
calculate_keyword_similarity(q1, q2) ==
    LET OfKeywords(keywords1, keywords2) ==
            IF keywords1 = {} \/ keywords2 = {} THEN 0
            ELSE Jaccard(keywords1, keywords2)
    IN  OfKeywords(extract_keywords(q1), extract_keywords(q2))

\* ---------------------------------------------------------------------
\* TF-IDF cosine (TfidfVectorizer(stop_words='english', ngram_range=(1, 2))
\* followed by cosine_similarity)
\* ---------------------------------------------------------------------
\* the vectorizer's English stop words that the modelled texts use
VectorizerStopWords ==
    { <<"t","h","e">>, <<"a","n","d">>, <<"a","r","e">>,
      <<"w","h","a","t">>, <<"i","s">> }

\* the vectorizer's analyzer: lowercase, tokens of two or more word
\* characters, stop words dropped
TfidfTokens(text) ==
    LET Clean(low) == List([i \in 1..Len(low) |->
                               IF IsWordChar(low[i]) THEN low[i] ELSE " "])
    IN  SelectSeq(Split(Clean(Lower(text))),
                  LAMBDA w : Len(w) >= 2 /\ w \notin VectorizerStopWords)

\* unigrams and bigrams of a token list, with repetitions
TfidfTerms(text) ==
    LET NGrams(toks) ==
            IF toks = <<>> THEN <<>>
            ELSE List([i \in 1..Len(toks) |-> <<toks[i]>>])
                 \o List([i \in 1..(Len(toks) - 1) |-> <<toks[i], toks[i + 1]>>])
    IN  NGrams(TfidfTokens(text))

\* 100 * (ln((1 + n) / (1 + df)) + 1): the smoothed inverse document
\* frequency of a term found in df of n documents
Idf100(n, df) ==
    LET num == 1 + n
        den == 1 + df
    IN  CASE num = den -> 100
          [] num = 3 /\ den = 2 -> 141
          [] num = 4 /\ den = 2 -> 169  [] num = 4 /\ den = 3 -> 129
          [] num = 5 /\ den = 2 -> 192  [] num = 5 /\ den = 3 -> 151
          [] num = 5 /\ den = 4 -> 122
          [] num = 6 /\ den = 2 -> 210  [] num = 6 /\ den = 3 -> 169
          [] num = 6 /\ den = 4 -> 141  [] num = 6 /\ den = 5 -> 118
          [] num = 7 /\ den = 2 -> 225  [] num = 7 /\ den = 3 -> 185
          [] num = 7 /\ den = 4 -> 156  [] num = 7 /\ den = 5 -> 134
          [] num = 7 /\ den = 6 -> 115
          [] OTHER -> 100

RECURSIVE ISqrtBetween(_, _, _)
ISqrtBetween(x, lo, hi) ==
    IF lo >= hi THEN lo
    ELSE LET mid == (lo + hi + 1) \div 2
         IN  IF mid * mid <= x THEN ISqrtBetween(x, mid, hi)
             ELSE ISqrtBetween(x, lo, mid - 1)

\* floor of the square root, for 0 <= x <= SCALE * SCALE
ISqrt(x) == ISqrtBetween(x, 0, SCALE)

\* floor(SCALE * num / den) without leaving 32 bits
Ratio(num, den) ==
    LET h == num * 100
    IN  (h \div den) * 100 + ((h % den) * 100) \div den

\* vocabulary of a fitted corpus
TfidfVocabulary(docs) == UNION { Range(TfidfTerms(docs[k])) : k \in 1..Len(docs) }

\* fit_transform(docs): the TF-IDF weight (times 100) of every vocabulary
\* term in every document, before the normalization that the cosine undoes
TfidfMatrix(docs) ==
    LET n == Len(docs)
        Weights(terms, vocab, df) ==
            List([k \in 1..n |->
                List([x \in 1..Len(vocab) |->
                    Cardinality({ y \in 1..Len(terms[k]) : terms[k][y] = vocab[x] })
                        * Idf100(n, df[x])])])
        Counted(terms, vocab) ==
            Weights(terms, vocab,
                    List([x \in 1..Len(vocab) |->
                        Cardinality({ k \in 1..n : vocab[x] \in Range(terms[k]) })]))
        Fitted(terms) ==
            Counted(terms, SetToSeq(UNION { Range(terms[k]) : k \in 1..n }))
    IN  Fitted(List([k \in 1..n |-> TfidfTerms(docs[k])]))

\* cosine_similarity of two weight vectors, in units of 1/SCALE
VectorCosine(v1, v2) ==
    LET OfProducts(dot, n1, n2) ==
            IF n1 = 0 \/ n2 = 0 THEN 0
            ELSE ISqrt(Ratio(dot, n1) * Ratio(dot, n2))
    IN  OfProducts(SumSeq([x \in 1..Len(v1) |-> v1[x] * v2[x]]),
                   SumSeq([x \in 1..Len(v1) |-> v1[x] * v1[x]]),
                   SumSeq([x \in 1..Len(v2) |-> v2[x] * v2[x]]))

\* cosine similarity of the TF-IDF vectors of documents i and j after
\* fitting the vectorizer on docs
TfidfCosine(docs, i, j) ==
    LET OfRows(matrix) == VectorCosine(matrix[i], matrix[j])
    IN  OfRows(TfidfMatrix(docs))

\* ---------------------------------------------------------------------
\* Sentence embeddings: a model maps a text to a unit vector in the plane,
\* given by its angle in steps of 30 degrees
\* ---------------------------------------------------------------------
\* SCALE * cos(30 degrees * d)
CosOfAngle(d) ==
    CASE d = 0 -> 10000 [] d = 1 -> 8660 [] d = 2 -> 5000 [] d = 3 -> 0
      [] d = 4 -> -5000 [] d = 5 -> -8660 [] OTHER -> -10000

\* cosine_similarity([e1], [e2])[0][0]
EmbeddingCosine(e1, e2) == CosOfAngle(IF e1 >= e2 THEN e1 - e2 ELSE e2 - e1)

\* ---------------------------------------------------------------------
\* Records (dicts) and the texts compared
\* ---------------------------------------------------------------------
\* question.get(key, '')
Get(question, key) == IF key \in DOMAIN question THEN question[key] ELSE <<>>

\* question.get('type')
GetType(question) == IF "type" \in DOMAIN question THEN question["type"] ELSE "None"

OptionKeys == <<"a", "b", "c", "d", "e">>

\* an answer is part of a written question's text if it is longer than this
SignificantAnswerLen == 20

\* _extract_question_text
_extract_question_text(question) ==
    LET text == Get(question, "question")
    IN  IF GetType(question) = "multiple choice"
        THEN LET present == SelectSeq(OptionKeys, LAMBDA opt : Truthy(Get(question, opt)))
                 options == List([i \in 1..Len(present) |-> Get(question, present[i])])
             IN  text \o <<" ">> \o JoinSp(options)
        ELSE IF /\ GetType(question) = "written question"
                /\ Len(Get(question, "answer")) > SignificantAnswerLen
        THEN text \o <<" ">> \o Get(question, "answer")
        ELSE text

\* the outcome of a call: the value returned, or the exception raised
Returns(value) == [value |-> value]

Raises(exception) == [raised |-> exception]

\* the call _extract_question_text(question) on field values of any type:
\* ' '.join(options) and len(answer) need str values, and so does text += ...
TryExtractQuestionText(question) ==
    IF GetType(question) = "multiple choice"
    THEN IF \E i \in 1..Len(OptionKeys) :
                /\ Truthy(Get(question, OptionKeys[i]))
                /\ ~IsStr(Get(question, OptionKeys[i]))
         THEN Raises("TypeError")
         ELSE IF ~IsStr(Get(question, "question")) THEN Raises("TypeError")
         ELSE Returns(_extract_question_text(question))
    ELSE IF GetType(question) = "written question"
    THEN IF ~IsStr(Get(question, "answer")) THEN Raises("TypeError")
         ELSE IF Len(Get(question, "answer")) <= SignificantAnswerLen
         THEN Returns(Get(question, "question"))
         ELSE IF ~IsStr(Get(question, "question")) THEN Raises("TypeError")
         ELSE Returns(_extract_question_text(question))
    ELSE Returns(Get(question, "question"))

\* _score_question_completeness
_score_question_completeness(question) ==
    LET qlen == IF Strip(Get(question, "question")) # <<>>
                THEN Len(Strip(Get(question, "question"))) ELSE 0
        olen == IF GetType(question) = "multiple choice"
                THEN SumSeq([i \in 1..Len(OptionKeys) |->
                        IF Strip(Get(question, OptionKeys[i])) # <<>>
                        THEN Len(Strip(Get(question, OptionKeys[i]))) ELSE 0])
                ELSE 0
        alen == IF Strip(Get(question, "answer")) # <<>>
                THEN Len(Strip(Get(question, "answer"))) * 2 ELSE 0
        cat  == IF Strip(Get(question, "category")) # <<>> THEN 10 ELSE 0
        img  == IF Get(question, "image") # <<>> THEN 20 ELSE 0
    IN  qlen + olen + alen + cat + img

\* ---------------------------------------------------------------------
\* The records the input lists are drawn from.  Objects 2 and 3 are two
\* distinct dicts with equal content.
\* ---------------------------------------------------------------------

\* 1: "Cats eat fish today."   2, 3: "cats eat fish"   4: "cats eat" + option "meat"
Catalogue ==
    << [type |-> "true/false",
        question |-> <<"C","a","t","s"," ","e","a","t"," ","f","i","s","h"," ","t","o","d","a","y",".">>,
        answer |-> <<"T","r","u","e">>, category |-> <<"B","i","o">>, image |-> <<"c","a","t",".","p","n","g">>],
       [type |-> "true/false",
        question |-> <<"c","a","t","s"," ","e","a","t"," ","f","i","s","h">>,
        answer |-> <<"T","r","u","e">>, category |-> <<"B","i","o">>],
       [type |-> "true/false",
        question |-> <<"c","a","t","s"," ","e","a","t"," ","f","i","s","h">>,
        answer |-> <<"T","r","u","e">>, category |-> <<"B","i","o">>],
       [type |-> "multiple choice",
        question |-> <<"c","a","t","s"," ","e","a","t">>,
        a |-> <<"m","e","a","t">>, b |-> <<>>, answer |-> <<"a">>, category |-> <<"B","i","o">>] >>

Objs == 1..Len(Catalogue)

\* an embedding model: the angle it gives to each comparable text
EmbedAngles == <<0, 1, 1, 2>>

ComparableTexts == { _extract_question_text(Catalogue[o]) : o \in Objs }

MiniLM ==
    Table([t \in ComparableTexts |->
              EmbedAngles[CHOOSE o \in Objs : _extract_question_text(Catalogue[o]) = t]])

\* self.sentence_model after __init__: the loaded model, or None when loading failed
SentenceModels == { [loaded |-> FALSE, encode |-> <<>>],
                    [loaded |-> TRUE,  encode |-> MiniLM] }

\* the weights of the combined similarity, in tenths
W_EXACT == 3
W_SEMANTIC == 4
W_TFIDF == 2
W_KEYWORD == 1

\* the pair-fitted TF-IDF signal: 0.0 when fit_transform raises on an empty
\* vocabulary
PairTfidf(text1, text2) ==
    IF TfidfVocabulary(<<text1, text2>>) = {} THEN 0
    ELSE TfidfCosine(<<text1, text2>>, 1, 2)

\* the texts the scorers are called on directly: the empty text, a text of
\* punctuation only, a text of stop words only, two texts equal after
\* normalization, a text sharing words with them and an unrelated text
SignalTexts ==
    { <<>>,
      <<".",".",".">>,
      <<"t","h","e"," ","a","n","d">>,
      <<"c","a","t","s"," ","e","a","t"," ","f","i","s","h">>,
      <<"C","a","t","s"," ","e","a","t"," ","f","i","s","h",".">>,
      <<"c","a","t","s"," ","e","a","t">>,
      <<"d","o","g","s"," ","b","a","r","k">> }

\* the three text signals of every pair of texts, computed once
PairSignals ==
    Table([t1 \in ComparableTexts \cup SignalTexts,
           t2 \in ComparableTexts \cup SignalTexts |->
              [exact   |-> calculate_exact_similarity(t1, t2),
               keyword |-> calculate_keyword_similarity(t1, t2),
               tfidf   |-> PairTfidf(t1, t2)]])

\* the weighted sum of the four signals, in units of 1/(10*SCALE)
Combine(exact_sim, semantic_sim, tfidf_sim, keyword_sim) ==
    exact_sim * W_EXACT + semantic_sim * W_SEMANTIC
        + tfidf_sim * W_TFIDF + keyword_sim * W_KEYWORD

\* QuestionDuplicateDetector.calculate_similarity
calculate_similarity(model, q1, q2) ==
    LET Combined(text1, text2, signals) ==
            Combine(signals.exact,
                    IF model.loaded
                    THEN EmbeddingCosine(model.encode[text1], model.encode[text2])
                    ELSE 0,
                    signals.tfidf, signals.keyword)
        OfTexts(text1, text2) ==
            IF text1 = <<>> \/ text2 = <<>> THEN 0
            ELSE Combined(text1, text2, PairSignals[text1, text2])
    IN  OfTexts(_extract_question_text(q1), _extract_question_text(q2))

\* round(float(similarity), 4): from units of 1/(10*SCALE) to units of
\* 1/SCALE, to the nearest, a tie to the even neighbour
Round4(x) ==
    LET q == x \div 10
        r == x % 10
    IN  IF r > 5 \/ (r = 5 /\ q % 2 = 1) THEN q + 1 ELSE q

\* ---------------------------------------------------------------------
\* QuestionDuplicateDetector: grouping
\* ---------------------------------------------------------------------
\* A group is the list of the input positions (1-based) of its members, in
\* the order the code appends the records; Records turns it into the list
\* of record objects the code holds.
Records(questions, group) == List([k \in 1..Len(group) |-> questions[group[k]]])

\* the positions i+1 .. n in order
After(i, n) == List([k \in 1..(n - i) |-> i + k])

RECURSIVE GroupFromAnyLater(_, _, _, _, _, _)
\* the outer loop with an inner loop that does not skip processed records
GroupFromAnyLater(model, threshold, dicts, i, processed, groups) ==
    IF i > Len(dicts) THEN groups
    ELSE IF i \in processed
         THEN GroupFromAnyLater(model, threshold, dicts, i + 1, processed, groups)
         ELSE LET Close(current_group) ==
                      GroupFromAnyLater(model, threshold, dicts, i + 1,
                                        processed \cup Range(current_group),
                                        Append(groups, current_group))
              IN  Close(<<i>> \o SelectSeq(After(i, Len(dicts)), LAMBDA j :
                      calculate_similarity(model, dicts[i], dicts[j]) >= threshold))

RECURSIVE GroupFrom(_, _, _, _, _, _)
\* the outer loop of find_duplicate_groups from position i on
GroupFrom(model, threshold, dicts, i, processed, groups) ==
    IF i > Len(dicts) THEN groups
    ELSE IF i \in processed
         THEN GroupFrom(model, threshold, dicts, i + 1, processed, groups)
         ELSE LET Close(current_group) ==
                      GroupFrom(model, threshold, dicts, i + 1,
                                processed \cup Range(current_group),
                                Append(groups, current_group))
              IN  Close(<<i>> \o SelectSeq(After(i, Len(dicts)), LAMBDA j :
                      /\ j \notin processed
                      /\ calculate_similarity(model, dicts[i], dicts[j]) >= threshold))

\* find_duplicate_groups: every unprocessed record opens a group and takes
\* the later unprocessed records similar to it
find_duplicate_groups(model, threshold, hp, questions) ==
    IF questions = <<>> THEN <<>>
    ELSE GroupFrom(model, threshold,
                   List([k \in 1..Len(questions) |-> hp[questions[k]]]), 1, {}, <<>>)

RECURSIVE MaxFromLast(_, _, _)
\* a maximum in which a later element also replaces an equal best so far
MaxFromLast(score, k, best) ==
    IF k > Len(score) THEN best
    ELSE MaxFromLast(score, k + 1, IF score[k] >= score[best] THEN k ELSE best)

RECURSIVE MaxFrom(_, _, _)
\* max() over the scores from position k on: a later element replaces the
\* best so far only if its key is strictly greater
MaxFrom(score, k, best) ==
    IF k > Len(score) THEN best
    ELSE MaxFrom(score, k + 1, IF score[k] > score[best] THEN k ELSE best)

\* max(group, key=self._score_question_completeness): the position in the
\* group of the member max() returns
BestIndex(hp, questions, group) ==
    MaxFrom(List([m \in 1..Len(group) |->
                _score_question_completeness(hp[questions[group[m]]])]), 2, 1)

\* ---------------------------------------------------------------------
\* QuestionDuplicateDetector: remove mode
\* ---------------------------------------------------------------------
\* the removal entries of one group: one for every member q with
\* q != best_question (dict comparison, by content)
RemovedOf(model, hp, group_records, best_question) ==
    LET Entries(others) ==
            [k \in 1..Len(others) |->
                [question     |-> others[k],
                 kept_instead |-> best_question,
                 similarity   |-> calculate_similarity(model, hp[others[k]],
                                                       hp[best_question])]]
    IN  Entries(SelectSeq(group_records, LAMBDA q : hp[q] # hp[best_question]))

RECURSIVE RemoveLoopGroupsOnly(_, _, _, _, _, _, _)
\* the loop with a singleton branch that keeps nothing
RemoveLoopGroupsOnly(model, hp, questions, duplicate_groups, g, unique_questions, removed_duplicates) ==
    IF g > Len(duplicate_groups)
    THEN [unique_questions |-> unique_questions,
          removed_duplicates |-> removed_duplicates,
          duplicate_groups |-> duplicate_groups]
    ELSE LET group == Records(questions, duplicate_groups[g])
             Keep(best_question) ==
                 RemoveLoopGroupsOnly(model, hp, questions, duplicate_groups, g + 1,
                                      Append(unique_questions, best_question),
                                      removed_duplicates
                                          \o RemovedOf(model, hp, group, best_question))
         IN  IF Len(group) = 1
             THEN RemoveLoopGroupsOnly(model, hp, questions, duplicate_groups, g + 1,
                                       unique_questions, removed_duplicates)
             ELSE Keep(group[BestIndex(hp, questions, duplicate_groups[g])])

RECURSIVE RemoveLoop(_, _, _, _, _, _, _)
\* the loop over duplicate_groups of remove_duplicates from group g on
RemoveLoop(model, hp, questions, duplicate_groups, g, unique_questions, removed_duplicates) ==
    IF g > Len(duplicate_groups)
    THEN [unique_questions |-> unique_questions,
          removed_duplicates |-> removed_duplicates,
          duplicate_groups |-> duplicate_groups]
    ELSE LET group == Records(questions, duplicate_groups[g])
             Keep(best_question) ==
                 RemoveLoop(model, hp, questions, duplicate_groups, g + 1,
                            Append(unique_questions, best_question),
                            removed_duplicates
                                \o RemovedOf(model, hp, group, best_question))
         IN  IF Len(group) = 1
             THEN RemoveLoop(model, hp, questions, duplicate_groups, g + 1,
                             Append(unique_questions, group[1]), removed_duplicates)
             ELSE Keep(group[BestIndex(hp, questions, duplicate_groups[g])])

\* remove_duplicates: the kept records and the removal entries (and the
\* groups found)
remove_duplicates(model, threshold, hp, questions) ==
    IF questions = <<>>
    THEN [unique_questions |-> <<>>, removed_duplicates |-> <<>>,
          duplicate_groups |-> <<>>]
    ELSE RemoveLoop(model, hp, questions,
                    find_duplicate_groups(model, threshold, hp, questions),
                    1, <<>>, <<>>)

\* ---------------------------------------------------------------------
\* QuestionDuplicateDetector: annotate mode
\* ---------------------------------------------------------------------
\* text[:120]
Truncate120(text) == SubSeq(text, 1, IF Len(text) < 120 THEN Len(text) ELSE 120)

\* the four assignments made to a fresh dict that keeps the type and the
\* question text of the record only
SetAnnotationOnFreshDict(question, group_id, is_representative, similarity) ==
    Table([key \in (DOMAIN question \cap {"type", "question"})
                      \cup {"is_duplicate", "duplicate_group_id",
                            "duplicate_representative",
                            "duplicate_similarity"} |->
              CASE key = "is_duplicate"             -> TRUE
                [] key = "duplicate_group_id"       -> group_id
                [] key = "duplicate_representative" -> is_representative
                [] key = "duplicate_similarity"     -> Round4(similarity)
                [] OTHER                            -> question[key]])

\* q["is_duplicate"] = ...; the four assignments to one record
SetAnnotation(question, group_id, is_representative, similarity) ==
    Table([key \in DOMAIN question \cup {"is_duplicate", "duplicate_group_id",
                                         "duplicate_representative",
                                         "duplicate_similarity"} |->
              CASE key = "is_duplicate"             -> TRUE
                [] key = "duplicate_group_id"       -> group_id
                [] key = "duplicate_representative" -> is_representative
                [] key = "duplicate_similarity"     -> Round4(similarity)
                [] OTHER                            -> question[key]])

RECURSIVE AnnotateMembers(_, _, _, _, _, _, _)
\* the loop over the members of one group from member k on: the heap
\* and the member infos after it
AnnotateMembers(model, hp, group, representative, group_id_counter, k, infos) ==
    IF k > Len(group) THEN [heap |-> hp, members |-> infos]
    ELSE LET q == group[k]
             Record(similarity, hp1) ==
                 AnnotateMembers(model, hp1, group, representative, group_id_counter,
                     k + 1,
                     Append(infos,
                            [question_text     |-> Truncate120(Get(hp1[q], "question")),
                             is_representative |-> q = representative,
                             similarity        |-> Round4(similarity)]))
             Assign(similarity) ==
                 Record(similarity,
                        [hp EXCEPT ![q] = SetAnnotation(hp[q], group_id_counter,
                                                        q = representative, similarity)])
         IN  Assign(IF q = representative THEN 10 * SCALE
                    ELSE calculate_similarity(model, hp[q], hp[representative]))

RECURSIVE AnnotateLoopAllGroups(_, _, _, _, _, _, _, _)
\* the loop over groups without the skip of singleton groups
AnnotateLoopAllGroups(model, hp, questions, groups, g, duplicate_groups_info, group_id_counter, duplicate_question_total) ==
    IF g > Len(groups)
    THEN [heap |-> hp, groups |-> duplicate_groups_info,
          duplicate_question_total |-> duplicate_question_total]
    ELSE LET group == Records(questions, groups[g])
             Report(representative, done) ==
                 AnnotateLoopAllGroups(model, done.heap, questions, groups, g + 1,
                     Append(duplicate_groups_info,
                            [group_id |-> group_id_counter,
                             size     |-> Len(group),
                             representative_text |->
                                 Truncate120(Get(done.heap[representative], "question")),
                             members  |-> done.members]),
                     group_id_counter + 1,
                     duplicate_question_total + Len(group))
             Annotate(representative) ==
                 Report(representative,
                        AnnotateMembers(model, hp, group, representative,
                                        group_id_counter, 1, <<>>))
         IN  Annotate(group[BestIndex(hp, questions, groups[g])])

RECURSIVE AnnotateLoop(_, _, _, _, _, _, _, _)
\* the loop over groups of annotate_duplicates from group g on
AnnotateLoop(model, hp, questions, groups, g, duplicate_groups_info, group_id_counter, duplicate_question_total) ==
    IF g > Len(groups)
    THEN [heap |-> hp, groups |-> duplicate_groups_info,
          duplicate_question_total |-> duplicate_question_total]
    ELSE IF Len(groups[g]) <= 1
    THEN AnnotateLoop(model, hp, questions, groups, g + 1, duplicate_groups_info,
                      group_id_counter, duplicate_question_total)
    ELSE LET group == Records(questions, groups[g])
             Report(representative, done) ==
                 AnnotateLoop(model, done.heap, questions, groups, g + 1,
                     Append(duplicate_groups_info,
                            [group_id |-> group_id_counter,
                             size     |-> Len(group),
                             representative_text |->
                                 Truncate120(Get(done.heap[representative], "question")),
                             members  |-> done.members]),
                     group_id_counter + 1,
                     duplicate_question_total + Len(group))
             Annotate(representative) ==
                 Report(representative,
                        AnnotateMembers(model, hp, group, representative,
                                        group_id_counter, 1, <<>>))
         IN  Annotate(group[BestIndex(hp, questions, groups[g])])

\* annotate_duplicates with a group id counter that starts after the ids the
\* records already carry
annotate_duplicates_continuing_ids(model, threshold, hp, questions) ==
    LET used == { hp[q]["duplicate_group_id"] :
                    q \in { o \in Range(questions) :
                               "duplicate_group_id" \in DOMAIN hp[o] } }
        first == IF used = {} THEN 1
                 ELSE 1 + CHOOSE m \in used : \A u \in used : u <= m
        Result(found, done) ==
            [heap |-> done.heap, annotated |-> questions, found |-> found,
             info |-> [groups |-> done.groups,
                       group_count |-> Len(done.groups),
                       duplicate_question_count |-> done.duplicate_question_total,
                       similarity_threshold |-> threshold]]
        Annotate(found) ==
            Result(found, AnnotateLoop(model, hp, questions, found, 1, <<>>, first, 0))
    IN  IF questions = <<>>
        THEN [heap |-> hp, annotated |-> <<>>, found |-> <<>>,
              info |-> [groups |-> <<>>, group_count |-> 0,
                        duplicate_question_count |-> 0]]
        ELSE Annotate(find_duplicate_groups(model, threshold, hp, questions))

\* annotate_duplicates whose report for an empty list has the group list only
annotate_duplicates_bare_empty_report(model, threshold, hp, questions) ==
    LET Result(found, done) ==
            [heap |-> done.heap, annotated |-> questions, found |-> found,
             info |-> [groups |-> done.groups,
                       group_count |-> Len(done.groups),
                       duplicate_question_count |-> done.duplicate_question_total,
                       similarity_threshold |-> threshold]]
        Annotate(found) ==
            Result(found, AnnotateLoop(model, hp, questions, found, 1, <<>>, 1, 0))
    IN  IF questions = <<>>
        THEN [heap |-> hp, annotated |-> <<>>, found |-> <<>>,
              info |-> [groups |-> <<>>]]
        ELSE Annotate(find_duplicate_groups(model, threshold, hp, questions))

\* annotate_duplicates with a group id counter that starts at 0
annotate_duplicates_from_zero(model, threshold, hp, questions) ==
    LET Result(found, done) ==
            [heap |-> done.heap, annotated |-> questions, found |-> found,
             info |-> [groups |-> done.groups,
                       group_count |-> Len(done.groups),
                       duplicate_question_count |-> done.duplicate_question_total,
                       similarity_threshold |-> threshold]]
        Annotate(found) ==
            Result(found, AnnotateLoop(model, hp, questions, found, 1, <<>>, 0, 0))
    IN  IF questions = <<>>
        THEN [heap |-> hp, annotated |-> <<>>, found |-> <<>>,
              info |-> [groups |-> <<>>, group_count |-> 0,
                        duplicate_question_count |-> 0]]
        ELSE Annotate(find_duplicate_groups(model, threshold, hp, questions))

\* annotate_duplicates: the heap after the call, the groups found, the
\* returned list and the returned report
annotate_duplicates(model, threshold, hp, questions) ==
    LET Result(found, done) ==
            [heap |-> done.heap, annotated |-> questions, found |-> found,
             info |-> [groups |-> done.groups,
                       group_count |-> Len(done.groups),
                       duplicate_question_count |-> done.duplicate_question_total,
                       similarity_threshold |-> threshold]]
        Annotate(found) ==
            Result(found, AnnotateLoop(model, hp, questions, found, 1, <<>>, 1, 0))
    IN  IF questions = <<>>
        THEN [heap |-> hp, annotated |-> <<>>, found |-> <<>>,
              info |-> [groups |-> <<>>, group_count |-> 0,
                        duplicate_question_count |-> 0]]
        ELSE Annotate(find_duplicate_groups(model, threshold, hp, questions))

\* ---------------------------------------------------------------------
\* OptimizedQuestionDuplicateDetector: similarity with the cache
\* ---------------------------------------------------------------------
\* the characters of the modelled texts in code-point order
CodePointOrder ==
    <<"\t", "\n", "\r", " ", "!", "\"", "#", "$", "%", "&", "'", "(", ")", "*",
      "+", ",", "-", ".", "/",
      "0", "1", "2", "3", "4", "5", "6", "7", "8", "9",
      ":", ";", "<", "=", ">", "?", "@",
      "A", "B", "C", "D", "E", "F", "G", "H", "I", "J", "K", "L", "M",
      "N", "O", "P", "Q", "R", "S", "T", "U", "V", "W", "X", "Y", "Z",
      "[", "\\", "]", "^", "_",
      "a", "b", "c", "d", "e", "f", "g", "h", "i", "j", "k", "l", "m",
      "n", "o", "p", "q", "r", "s", "t", "u", "v", "w", "x", "y", "z",
      "{", "|", "}", "~">>

Ord(c) == CHOOSE i \in 1..Len(CodePointOrder) : CodePointOrder[i] = c

RECURSIVE TextLess(_, _)
\* text1 < text2 on Python strings
TextLess(t1, t2) ==
    IF t2 = <<>> THEN FALSE
    ELSE IF t1 = <<>> THEN TRUE
    ELSE IF Head(t1) # Head(t2) THEN Ord(Head(t1)) < Ord(Head(t2))
    ELSE TextLess(Tail(t1), Tail(t2))

\* _get_cache_key: the two texts, the smaller first, joined by "|||" (the
\* MD5 digest of it is taken to be injective)
_get_cache_key(text1, text2) ==
    IF TextLess(text1, text2) THEN text1 \o <<"|", "|", "|">> \o text2
    ELSE text2 \o <<"|", "|", "|">> \o text1

\* _calculate_similarity_optimized: the value returned and the cache after
\* the call; an embedding is <<>> (None) or <<e>>
_calculate_similarity_optimized(use_cache, cache, text1, text2, embedding1, embedding2) ==
    LET Store(cache_key, combined_similarity) ==
            [value |-> combined_similarity,
             cache |-> IF use_cache
                       THEN Table([key \in DOMAIN cache \cup {cache_key} |->
                                      IF key = cache_key THEN combined_similarity
                                      ELSE cache[key]])
                       ELSE cache]
        Combined(signals) ==
            Combine(signals.exact,
                    IF embedding1 # <<>> /\ embedding2 # <<>>
                    THEN EmbeddingCosine(embedding1[1], embedding2[1])
                    ELSE 0,
                    signals.tfidf, signals.keyword)
        Lookup(cache_key) ==
            IF use_cache /\ cache_key \in DOMAIN cache
            THEN [value |-> cache[cache_key], cache |-> cache]
            ELSE Store(cache_key, Combined(PairSignals[text1, text2]))
    IN  IF text1 = <<>> \/ text2 = <<>> THEN [value |-> 0, cache |-> cache]
        ELSE Lookup(_get_cache_key(text1, text2))

\* ---------------------------------------------------------------------
\* OptimizedQuestionDuplicateDetector: prefilter and detailed similarities
\* ---------------------------------------------------------------------
\* the TF-IDF prefilter threshold passed to _find_candidate_pairs
PrefilterThreshold == 3000

\* _compute_tfidf_batch: the corpus-wide TF-IDF cosine matrix (zeros when
\* fewer than two texts are non-empty or the vectorizer raises)
_compute_tfidf_batch(texts) ==
    LET n     == Len(texts)
        zeros == List([i \in 1..n |-> List([j \in 1..n |-> 0])])
        Cosines(non_empty_indices, tfidf_matrix) ==
            LET pos(i) == CHOOSE k \in 1..Len(non_empty_indices) :
                              non_empty_indices[k] = i
            IN  List([i \in 1..n |-> List([j \in 1..n |->
                    IF i \in Range(non_empty_indices) /\ j \in Range(non_empty_indices)
                    THEN VectorCosine(tfidf_matrix[pos(i)], tfidf_matrix[pos(j)])
                    ELSE 0])])
        Fit(non_empty_indices, non_empty_texts) ==
            IF Len(non_empty_texts) < 2 THEN zeros
            ELSE IF TfidfVocabulary(non_empty_texts) = {} THEN zeros
            ELSE Cosines(non_empty_indices, TfidfMatrix(non_empty_texts))
        Select(normalized_texts, non_empty_indices) ==
            Fit(non_empty_indices,
                List([k \in 1..Len(non_empty_indices) |->
                    normalized_texts[non_empty_indices[k]]]))
        Filter(normalized_texts) ==
            Select(normalized_texts,
                   SelectSeq(List([i \in 1..n |-> i]),
                             LAMBDA i : Strip(normalized_texts[i]) # <<>>))
    IN  Filter(List([i \in 1..n |-> normalize_text(texts[i])]))

\* the corpus-wide matrix of every list of comparable texts, computed once
TfidfBatchTable ==
    Table([texts \in UNION { [1..n -> ComparableTexts] : n \in 2..MaxLen } |->
        _compute_tfidf_batch(texts)])

RECURSIVE PairsFrom(_, _, _)
\* the pairs (i, j), i < j, in the order of the two nested loops
PairsFrom(i, j, n) ==
    IF i > n THEN <<>>
    ELSE IF j > n THEN PairsFrom(i + 1, i + 2, n)
    ELSE <<(<<i, j>>)>> \o PairsFrom(i, j + 1, n)

\* _find_candidate_pairs
_find_candidate_pairs(similarity_matrix, threshold) ==
    SelectSeq(PairsFrom(1, 2, Len(similarity_matrix)),
              LAMBDA p : similarity_matrix[p[1]][p[2]] >= threshold)

RECURSIVE DetailedLoop(_, _, _, _, _, _, _)
\* the loop over the candidate pairs from pair k on: the matrix and the
\* cache after it
DetailedLoop(use_cache, cache, texts, embeddings, candidate_pairs, k, similarity_matrix) ==
    IF k > Len(candidate_pairs)
    THEN [matrix |-> similarity_matrix, cache |-> cache]
    ELSE LET idx1 == candidate_pairs[k][1]
             idx2 == candidate_pairs[k][2]
             Fill(r) ==
                 DetailedLoop(use_cache, r.cache, texts, embeddings, candidate_pairs,
                     k + 1,
                     [similarity_matrix EXCEPT ![idx1][idx2] = r.value,
                                               ![idx2][idx1] = r.value])
         IN  Fill(_calculate_similarity_optimized(use_cache, cache,
                      texts[idx1], texts[idx2],
                      IF embeddings # <<>> THEN <<embeddings[idx1]>> ELSE <<>>,
                      IF embeddings # <<>> THEN <<embeddings[idx2]>> ELSE <<>>))

\* _compute_detailed_similarities_batch: zeros, the diagonal 1.0, and the
\* combined similarity of every candidate pair
_compute_detailed_similarities_batch(model, use_cache, cache, texts, candidate_pairs) ==
    LET n          == Len(texts)
        identity   == List([i \in 1..n |->
                          List([j \in 1..n |-> IF i = j THEN 10 * SCALE ELSE 0])])
        embeddings == IF model.loaded
                      THEN List([i \in 1..n |-> model.encode[texts[i]]])
                      ELSE <<>>
    IN  IF candidate_pairs = <<>> THEN [matrix |-> identity, cache |-> cache]
        ELSE DetailedLoop(use_cache, cache, texts, embeddings, candidate_pairs, 1, identity)

\* ---------------------------------------------------------------------
\* OptimizedQuestionDuplicateDetector: Union-Find clustering
\* ---------------------------------------------------------------------
RECURSIVE FindRoot(_, _)
\* the value find(x) returns
FindRoot(parent, x) == IF parent[x] # x THEN FindRoot(parent, parent[x]) ELSE x

RECURSIVE Compress(_, _)
\* the parent array after find(x): every node on the path points to the root
Compress(parent, x) ==
    IF parent[x] # x
    THEN [Compress(parent, parent[x]) EXCEPT ![x] = FindRoot(parent, x)]
    ELSE parent

\* union(x, y): the parent array after it
Union(parent, x, y) ==
    LET Link(px, py, p2) == IF px # py THEN [p2 EXCEPT ![px] = py] ELSE p2
        Second(px, p1)   == Link(px, FindRoot(p1, y), Compress(p1, y))
    IN  Second(FindRoot(parent, x), Compress(parent, x))

RECURSIVE UnionLoop(_, _, _, _)
\* the two nested loops that union the pairs at or above the threshold
UnionLoop(parent, pairs, similarity_matrix, threshold) ==
    IF pairs = <<>> THEN parent
    ELSE LET i == Head(pairs)[1]
             j == Head(pairs)[2]
         IN  UnionLoop(IF similarity_matrix[i][j] >= threshold
                       THEN Union(parent, i, j) ELSE parent,
                       Tail(pairs), similarity_matrix, threshold)

RECURSIVE GroupByRoot(_, _, _, _)
\* the loop filling groups_dict: roots in the order first met, and the
\* positions of each root in increasing order
GroupByRoot(parent, i, roots, members) ==
    IF i > Len(parent) THEN List([k \in 1..Len(roots) |-> members[roots[k]]])
    ELSE LET Place(root, p1) ==
                 IF root \in Range(roots)
                 THEN GroupByRoot(p1, i + 1, roots,
                                  [members EXCEPT ![root] = Append(@, i)])
                 ELSE GroupByRoot(p1, i + 1, Append(roots, root),
                                  [members EXCEPT ![root] = <<i>>])
         IN  Place(FindRoot(parent, i), Compress(parent, i))

\* _cluster_questions: the groups, as lists of positions
_cluster_questions(n, similarity_matrix, threshold) ==
    GroupByRoot(UnionLoop(List([i \in 1..n |-> i]), PairsFrom(1, 2, n),
                          similarity_matrix, threshold),
                1, <<>>, List([i \in 1..n |-> <<>>]))

\* find_duplicate_groups_optimized: the groups and the cache after the call
find_duplicate_groups_optimized(model, use_cache, cache, threshold, hp, questions) ==
    LET Cluster(detailed) ==
            [groups |-> _cluster_questions(Len(questions), detailed.matrix, threshold),
             cache  |-> detailed.cache]
        Detail(texts, tfidf_matrix) ==
            Cluster(_compute_detailed_similarities_batch(model, use_cache, cache, texts,
                        _find_candidate_pairs(tfidf_matrix, PrefilterThreshold)))
        Prefilter(texts) == Detail(texts, TfidfBatchTable[texts])
    IN  IF Len(questions) < 2
        THEN [groups |-> List([k \in 1..Len(questions) |-> <<k>>]), cache |-> cache]
        ELSE Prefilter(List([k \in 1..Len(questions) |->
                               _extract_question_text(hp[questions[k]])]))

\* ---------------------------------------------------------------------
\* OptimizedQuestionDuplicateDetector: remove and annotate mode
\* ---------------------------------------------------------------------
RECURSIVE OptRemovedOf(_, _, _, _, _, _, _)
\* the removal entries of one group from member k on, and the cache after
OptRemovedOf(use_cache, cache, hp, group, best_question, k, entries) ==
    IF k > Len(group) THEN [entries |-> entries, cache |-> cache]
    ELSE LET q == group[k]
             Entry(r) ==
                 OptRemovedOf(use_cache, r.cache, hp, group, best_question, k + 1,
                     Append(entries, [question     |-> q,
                                      kept_instead |-> best_question,
                                      similarity   |-> r.value]))
         IN  IF hp[q] # hp[best_question]
             THEN Entry(_calculate_similarity_optimized(use_cache, cache,
                            _extract_question_text(hp[q]),
                            _extract_question_text(hp[best_question]), <<>>, <<>>))
             ELSE OptRemovedOf(use_cache, cache, hp, group, best_question, k + 1, entries)

RECURSIVE OptRemoveLoop(_, _, _, _, _, _, _, _)
\* the loop over groups of the optimized remove_duplicates from group g on
OptRemoveLoop(use_cache, cache, hp, questions, groups, g, unique_questions, removed_duplicates) ==
    IF g > Len(groups)
    THEN [unique_questions |-> unique_questions,
          removed_duplicates |-> removed_duplicates, cache |-> cache]
    ELSE LET group == Records(questions, groups[g])
             Drop(best_question, r) ==
                 OptRemoveLoop(use_cache, r.cache, hp, questions, groups, g + 1,
                               Append(unique_questions, best_question),
                               removed_duplicates \o r.entries)
             Keep(best_question) ==
                 Drop(best_question,
                      OptRemovedOf(use_cache, cache, hp, group, best_question, 1, <<>>))
         IN  IF Len(group) = 1
             THEN OptRemoveLoop(use_cache, cache, hp, questions, groups, g + 1,
                                Append(unique_questions, group[1]), removed_duplicates)
             ELSE Keep(group[BestIndex(hp, questions, groups[g])])

\* OptimizedQuestionDuplicateDetector.remove_duplicates
opt_remove_duplicates(model, use_cache, cache, threshold, hp, questions) ==
    LET Result(found, done) ==
            [unique_questions |-> done.unique_questions,
             removed_duplicates |-> done.removed_duplicates,
             cache |-> done.cache, groups |-> found.groups]
        Remove(found) ==
            Result(found, OptRemoveLoop(use_cache, found.cache, hp, questions,
                                        found.groups, 1, <<>>, <<>>))
    IN  IF questions = <<>>
        THEN [unique_questions |-> <<>>, removed_duplicates |-> <<>>,
              cache |-> cache, groups |-> <<>>]
        ELSE Remove(find_duplicate_groups_optimized(model, use_cache, cache,
                                                    threshold, hp, questions))

RECURSIVE OptAnnotateMembers(_, _, _, _, _, _, _, _)
\* the loop over the members of one group from member k on
OptAnnotateMembers(use_cache, cache, hp, group, representative, group_id_counter, k, infos) ==
    IF k > Len(group) THEN [heap |-> hp, members |-> infos, cache |-> cache]
    ELSE LET q == group[k]
             Record(r, hp1) ==
                 OptAnnotateMembers(use_cache, r.cache, hp1, group, representative,
                     group_id_counter, k + 1,
                     Append(infos,
                            [question_text     |-> Truncate120(Get(hp1[q], "question")),
                             is_representative |-> q = representative,
                             similarity        |-> Round4(r.value)]))
             Assign(r) ==
                 Record(r, [hp EXCEPT ![q] = SetAnnotation(hp[q], group_id_counter,
                                                           q = representative, r.value)])
         IN  Assign(IF q = representative THEN [value |-> 10 * SCALE, cache |-> cache]
                    ELSE _calculate_similarity_optimized(use_cache, cache,
                             _extract_question_text(hp[q]),
                             _extract_question_text(hp[representative]), <<>>, <<>>))

RECURSIVE OptAnnotateLoop(_, _, _, _, _, _, _, _, _)
\* the loop over groups of the optimized annotate_duplicates from group g on
OptAnnotateLoop(use_cache, cache, hp, questions, groups, g, duplicate_groups_info, group_id_counter, duplicate_question_total) ==
    IF g > Len(groups)
    THEN [heap |-> hp, groups |-> duplicate_groups_info, cache |-> cache,
          duplicate_question_total |-> duplicate_question_total]
    ELSE IF Len(groups[g]) <= 1
    THEN OptAnnotateLoop(use_cache, cache, hp, questions, groups, g + 1,
                         duplicate_groups_info, group_id_counter,
                         duplicate_question_total)
    ELSE LET group == Records(questions, groups[g])
             Report(representative, done) ==
                 OptAnnotateLoop(use_cache, done.cache, done.heap, questions, groups,
                     g + 1,
                     Append(duplicate_groups_info,
                            [group_id |-> group_id_counter,
                             size     |-> Len(group),
                             representative_text |->
                                 Truncate120(Get(done.heap[representative], "question")),
                             members  |-> done.members]),
                     group_id_counter + 1,
                     duplicate_question_total + Len(group))
             Annotate(representative) ==
                 Report(representative,
                        OptAnnotateMembers(use_cache, cache, hp, group, representative,
                                           group_id_counter, 1, <<>>))
         IN  Annotate(group[BestIndex(hp, questions, groups[g])])

\* OptimizedQuestionDuplicateDetector.annotate_duplicates
opt_annotate_duplicates(model, use_cache, cache, threshold, hp, questions) ==
    LET Result(found, done) ==
            [heap |-> done.heap, annotated |-> questions, cache |-> done.cache,
             found |-> found.groups,
             info |-> [groups |-> done.groups,
                       group_count |-> Len(done.groups),
                       duplicate_question_count |-> done.duplicate_question_total,
                       similarity_threshold |-> threshold]]
        Annotate(found) ==
            Result(found, OptAnnotateLoop(use_cache, found.cache, hp, questions,
                                          found.groups, 1, <<>>, 1, 0))
    IN  IF questions = <<>>
        THEN [heap |-> hp, annotated |-> <<>>, cache |-> cache, found |-> <<>>,
              info |-> [groups |-> <<>>, group_count |-> 0,
                        duplicate_question_count |-> 0]]
        ELSE Annotate(find_duplicate_groups_optimized(model, use_cache, cache,
                                                      threshold, hp, questions))

\* ---------------------------------------------------------------------
\* The state machine: one detector, one input list, and the calls on it
\* ---------------------------------------------------------------------
\* decision thresholds, in units of 1/(10*SCALE): 0.6 (the constructors'
\* default), 0.8 (the default of annotate_duplicates_in_questions) and 1.0
\* (the largest the upload handler accepts)
Thresholds == {60000, 80000, 100000}

\* the input lists: up to MaxLen references, with repetitions; object 3, the
\* second dict equal to object 2, is listed only after object 2
InputLists ==
    { l \in UNION { [1..n -> Objs] : n \in 0..MaxLen } :
        \A k \in 1..Len(l) : l[k] = 3 => \E m \in 1..(k - 1) : l[m] = 2 }

NoInfo == [groups |-> <<>>, group_count |-> 0, duplicate_question_count |-> 0]

VARIABLES
    questions,             \* the caller's list: object references
    heap,                  \* the record objects (dicts), by reference
    detector,              \* the class of the detector constructed
    similarity_threshold,  \* self.similarity_threshold
    sentence_model,        \* self.sentence_model
    use_cache,             \* self.use_cache
    similarity_cache,      \* self._similarity_cache
    op,                    \* the last call made
    groups,                \* the groups of the last call, as position lists
    unique_questions,      \* remove mode: the kept records
    removed_duplicates,    \* remove mode: the removal entries
    annotated,             \* annotate mode: the returned list
    info                   \* annotate mode: the returned report

\* the upload: the request, parse_excel and its detection worker thread
VARIABLES
    request,               \* the endpoint called and the form data of the request
    disable_ml_features,   \* parse_excel: DISABLE_ML_FEATURES of the environment
    pc,                    \* the statement the request's thread is at
    worker,                \* the detection worker thread: its state and progress
    dup_result_container,  \* parse_excel: the container the worker fills
    elapsed,               \* parse_excel: the seconds waited for the worker
    all_questions,         \* parse_excel: the list it returns
    metadata,              \* parse_excel: the metadata dict (duplicate_detection)
    returned               \* what the last call returned or raised

server == <<request, disable_ml_features, pc, worker, dup_result_container, elapsed,
            all_questions, metadata, returned>>

\* the thread pool of _compute_detailed_similarities_batch
VARIABLES
    vectorizer,            \* self.vectorizer: the idf of its last fit, while the pool runs
    batch                  \* the candidate pairs, their futures and the matrix

pool == <<vectorizer, batch>>

vars == <<questions, heap, detector, similarity_threshold, sentence_model, use_cache,
          similarity_cache, op, groups, unique_questions, removed_duplicates,
          annotated, info, server, pool>>

\* no batch of candidate pairs is being computed
NoBatch ==
    /\ vectorizer = <<>>
    /\ batch = [pc |-> "idle", candidate_pairs |-> <<>>, futures |-> <<>>,
                similarity_matrix |-> <<>>]

\* no request is being served
NoRequest ==
    /\ request = [endpoint |-> "none"]
    /\ disable_ml_features = FALSE
    /\ pc = "idle"
    /\ worker = [state |-> "none", done |-> 0]
    /\ dup_result_container = <<>>
    /\ elapsed = 0
    /\ all_questions = <<>>
    /\ metadata = <<>>
    /\ returned = <<>>

config == <<questions, detector, similarity_threshold, sentence_model, use_cache>>

\* the state after __init__ of either detector, with the parsed records
Init ==
    /\ questions \in InputLists
    /\ heap = [o \in Objs |-> Catalogue[o]]
    /\ similarity_threshold \in Thresholds
    /\ sentence_model \in SentenceModels
    /\ \/ detector = "QuestionDuplicateDetector" /\ use_cache = FALSE
       \/ detector = "OptimizedQuestionDuplicateDetector" /\ use_cache = TRUE
    /\ similarity_cache = <<>>
    /\ op = "init"
    /\ groups = <<>>
    /\ unique_questions = <<>>
    /\ removed_duplicates = <<>>
    /\ annotated = <<>>
    /\ info = NoInfo
    /\ NoRequest
    /\ NoBatch

\* detector.find_duplicate_groups(questions)
FindDuplicateGroups ==
    /\ detector = "QuestionDuplicateDetector"
    /\ op' = "find_duplicate_groups"
    /\ groups' = find_duplicate_groups(sentence_model, similarity_threshold,
                                       heap, questions)
    /\ unique_questions' = <<>>
    /\ removed_duplicates' = <<>>
    /\ annotated' = <<>>
    /\ info' = NoInfo
    /\ UNCHANGED <<config, pool, heap, similarity_cache, server>>

\* detector.remove_duplicates(questions)
RemoveDuplicates ==
    /\ detector = "QuestionDuplicateDetector"
    /\ \E r \in {remove_duplicates(sentence_model, similarity_threshold, heap, questions)} :
           /\ unique_questions' = r.unique_questions
           /\ removed_duplicates' = r.removed_duplicates
           /\ groups' = r.duplicate_groups
    /\ op' = "remove_duplicates"
    /\ annotated' = <<>>
    /\ info' = NoInfo
    /\ UNCHANGED <<config, pool, heap, similarity_cache, server>>

\* detector.annotate_duplicates(questions)
AnnotateDuplicates ==
    /\ detector = "QuestionDuplicateDetector"
    /\ \E r \in {annotate_duplicates(sentence_model, similarity_threshold, heap, questions)} :
           /\ heap' = r.heap
           /\ annotated' = r.annotated
           /\ info' = r.info
           /\ groups' = r.found
    /\ op' = "annotate_duplicates"
    /\ unique_questions' = <<>>
    /\ removed_duplicates' = <<>>
    /\ UNCHANGED <<config, pool, similarity_cache, server>>

\* detector.find_duplicate_groups_optimized(questions)
FindDuplicateGroupsOptimized ==
    /\ detector = "OptimizedQuestionDuplicateDetector"
    /\ \E r \in {find_duplicate_groups_optimized(sentence_model, use_cache,
                    similarity_cache, similarity_threshold, heap, questions)} :
           /\ groups' = r.groups
           /\ similarity_cache' = r.cache
    /\ op' = "find_duplicate_groups"
    /\ unique_questions' = <<>>
    /\ removed_duplicates' = <<>>
    /\ annotated' = <<>>
    /\ info' = NoInfo
    /\ UNCHANGED <<config, pool, heap, server>>

\* optimized detector.remove_duplicates(questions)
OptRemoveDuplicates ==
    /\ detector = "OptimizedQuestionDuplicateDetector"
    /\ \E r \in {opt_remove_duplicates(sentence_model, use_cache, similarity_cache,
                                      similarity_threshold, heap, questions)} :
           /\ unique_questions' = r.unique_questions
           /\ removed_duplicates' = r.removed_duplicates
           /\ similarity_cache' = r.cache
           /\ groups' = r.groups
    /\ op' = "remove_duplicates"
    /\ annotated' = <<>>
    /\ info' = NoInfo
    /\ UNCHANGED <<config, pool, heap, server>>

\* optimized detector.annotate_duplicates(questions)
OptAnnotateDuplicates ==
    /\ detector = "OptimizedQuestionDuplicateDetector"
    /\ \E r \in {opt_annotate_duplicates(sentence_model, use_cache, similarity_cache,
                                        similarity_threshold, heap, questions)} :
           /\ heap' = r.heap
           /\ annotated' = r.annotated
           /\ info' = r.info
           /\ similarity_cache' = r.cache
           /\ groups' = r.found
    /\ op' = "annotate_duplicates"
    /\ unique_questions' = <<>>
    /\ removed_duplicates' = <<>>
    /\ UNCHANGED <<config, pool, server>>

Next ==
    \/ FindDuplicateGroups
    \/ RemoveDuplicates
    \/ AnnotateDuplicates
    \/ FindDuplicateGroupsOptimized
    \/ OptRemoveDuplicates
    \/ OptAnnotateDuplicates

Spec == Init /\ [][Next]_vars

\* ---------------------------------------------------------------------
\* Properties of the grouping step
\* ---------------------------------------------------------------------
\* the places of the groups of the last call: group number and place in it
Slots == UNION { { <<g, k>> : k \in 1..Len(groups[g]) } : g \in 1..Len(groups) }

\* the number of the group that holds position p
GroupOf(p) == CHOOSE g \in 1..Len(groups) : p \in Range(groups[g])

Simple == detector = "QuestionDuplicateDetector"

Optimized == detector = "OptimizedQuestionDuplicateDetector"

\* C1: the groups returned by the grouping step of either detector are a
\* partition of the input positions: no group is empty, every group holds
\* input positions only, and every position fills exactly one place of
\* exactly one group.
C1_GroupsPartitionPositions ==
    op # "init" =>
        /\ \A g \in 1..Len(groups) :
               groups[g] # <<>> /\ Range(groups[g]) \subseteq 1..Len(questions)
        /\ \A p \in 1..Len(questions) :
               Cardinality({ s \in Slots : groups[s[1]][s[2]] = p }) = 1

\* C1 happens: the clustering of the optimized detector returned a group of
\* several positions followed by another group
C1_Witness ==
    /\ Optimized
    /\ op = "find_duplicate_groups"
    /\ Len(groups) >= 2
    /\ Len(groups[1]) >= 2

\* the combined similarity of the records at positions i and j reaches the
\* decision threshold
SimilarAt(i, j) ==
    calculate_similarity(sentence_model, heap[questions[i]], heap[questions[j]])
        >= similarity_threshold

RECURSIVE ChainFrom(_)
\* the positions joined to a position of S by a chain of similar pairs
ChainFrom(S) ==
    LET T == S \cup { j \in 1..Len(questions) : \E i \in S : SimilarAt(i, j) }
    IN  IF T = S THEN S ELSE ChainFrom(T)

\* C2: after find_duplicate_groups of the simple detector, two records
\* joined by a chain of pairs whose combined similarity reaches the
\* threshold (a single pair included) are in the same group.
C2_GroupsAreConnectedComponents ==
    (Simple /\ op # "init") =>
        \A i \in 1..Len(questions) :
            \A j \in ChainFrom({i}) : GroupOf(i) = GroupOf(j)

\* every group of the finer list of groups lies within one group of the
\* coarser list
Coarsens(coarser, finer) ==
    \A f \in 1..Len(finer) :
        \E c \in 1..Len(coarser) : Range(finer[f]) \subseteq Range(coarser[c])

\* C3: for the same input, the groups of find_duplicate_groups at a lower
\* threshold coarsen the groups at a higher one: every group formed at the
\* state's threshold lies within one group formed at any lower threshold.
C3_LowerThresholdCoarsens ==
    (Simple /\ op # "init") =>
        \A t1 \in Thresholds :
            t1 < similarity_threshold =>
                Coarsens(find_duplicate_groups(sentence_model, t1, heap, questions),
                         groups)

\* ---------------------------------------------------------------------
\* Properties of remove mode
\* ---------------------------------------------------------------------
\* C4: in remove mode the kept records and the removal entries add up to
\* the input, and a group of k members gives k-1 removal entries, each for
\* a member of the group and each citing the record kept for the group.
C4_OneRemovalPerNonRepresentative ==
    op = "remove_duplicates" =>
        /\ Len(unique_questions) + Len(removed_duplicates) = Len(questions)
        /\ \A g \in 1..Len(groups) :
               Len(groups[g]) > 1 =>
                   Cardinality({ e \in 1..Len(removed_duplicates) :
                       /\ removed_duplicates[e].kept_instead = unique_questions[g]
                       /\ removed_duplicates[e].question
                              \in Range(Records(questions, groups[g])) })
                       = Len(groups[g]) - 1

\* C5: in remove mode, of either detector, the kept list has one record for
\* each group returned by the grouping step, singletons included, and the
\* g-th kept record is a member of the g-th group.
C5_OneKeptPerGroup ==
    op = "remove_duplicates" =>
        /\ Len(unique_questions) = Len(groups)
        /\ \A g \in 1..Len(groups) :
               unique_questions[g] \in Range(Records(questions, groups[g]))

\* C5 happens: remove mode kept one record for a singleton group and one for
\* a group of several records
C5_Witness ==
    /\ op = "remove_duplicates"
    /\ \E g, h \in 1..Len(groups) : Len(groups[g]) = 1 /\ Len(groups[h]) >= 2
    /\ Len(unique_questions) >= 2

\* ---------------------------------------------------------------------
\* Properties of the representative and of annotate mode
\* ---------------------------------------------------------------------
\* the completeness score of the record at position p
ScoreAt(p) == _score_question_completeness(heap[questions[p]])

\* member k of the group has a score no other member exceeds and no member
\* before it in the input order reaches
FirstBest(group, k) ==
    /\ \A m \in 1..Len(group) : ScoreAt(group[m]) <= ScoreAt(group[k])
    /\ \A m \in 1..(k - 1) : ScoreAt(group[m]) < ScoreAt(group[k])

\* the records of the group that carry duplicate_representative = true
Flagged(group) ==
    { q \in Range(Records(questions, group)) :
        /\ "duplicate_representative" \in DOMAIN heap[q]
        /\ heap[q]["duplicate_representative"] = TRUE }

\* C6: the representative of a group of several records is a member with
\* the maximum completeness score, and among members with that score the
\* first in input order: it is the record kept in remove mode and the
\* record flagged in annotate mode.
C6_RepresentativeIsFirstBest ==
    \A g \in 1..Len(groups) :
        Len(groups[g]) > 1 =>
            \E k \in 1..Len(groups[g]) :
                /\ FirstBest(groups[g], k)
                /\ op = "remove_duplicates" =>
                       unique_questions[g] = questions[groups[g][k]]
                /\ op = "annotate_duplicates" =>
                       Flagged(groups[g]) = {questions[groups[g][k]]}

\* C6 happens: a group in which the best score is shared and a later member
\* has a lower one, after remove or annotate mode
C6_Witness ==
    /\ op \in {"remove_duplicates", "annotate_duplicates"}
    /\ \E g \in 1..Len(groups) :
           \E k, m, l \in 1..Len(groups[g]) :
               /\ k < m
               /\ FirstBest(groups[g], k)
               /\ ScoreAt(groups[g][m]) = ScoreAt(groups[g][k])
               /\ questions[groups[g][m]] # questions[groups[g][k]]
               /\ ScoreAt(groups[g][l]) < ScoreAt(groups[g][k])

\* C7: after annotate_duplicates every group of several records has exactly
\* one member position whose record has duplicate_representative = true,
\* with duplicate_similarity 1.0, and the records at its other positions
\* have duplicate_representative = false.
C7_OneRepresentativePerGroup ==
    op = "annotate_duplicates" =>
        \A g \in 1..Len(groups) :
            Len(groups[g]) > 1 =>
                \E k \in 1..Len(groups[g]) :
                    /\ heap[questions[groups[g][k]]]["duplicate_representative"] = TRUE
                    /\ heap[questions[groups[g][k]]]["duplicate_similarity"] = SCALE
                    /\ \A m \in 1..Len(groups[g]) :
                           m # k =>
                               heap[questions[groups[g][m]]]["duplicate_representative"]
                                   = FALSE

AnnotationKeys ==
    {"is_duplicate", "duplicate_group_id", "duplicate_representative",
     "duplicate_similarity"}

\* no record carries an annotation field
Unannotated == \A o \in Objs : DOMAIN heap[o] \cap AnnotationKeys = {}

\* the record at position p has is_duplicate = true and a group id
MarkedAt(p) ==
    /\ "is_duplicate" \in DOMAIN heap[questions[p]]
    /\ heap[questions[p]]["is_duplicate"] = TRUE
    /\ "duplicate_group_id" \in DOMAIN heap[questions[p]]

\* the annotations agree with the groups
AnnotationsFollowGroups ==
    /\ \A p \in 1..Len(questions) :
           /\ MarkedAt(p) <=> Len(groups[GroupOf(p)]) > 1
           /\ Len(groups[GroupOf(p)]) = 1 =>
                  DOMAIN heap[questions[p]] \cap AnnotationKeys = {}
    /\ \A p, r \in 1..Len(questions) :
           (Len(groups[GroupOf(p)]) > 1 /\ Len(groups[GroupOf(r)]) > 1) =>
               (GroupOf(p) = GroupOf(r)
                   <=> heap[questions[p]]["duplicate_group_id"]
                           = heap[questions[r]]["duplicate_group_id"])

\* C8: an annotate_duplicates call on records without annotation fields
\* leaves is_duplicate = true and a group id on exactly the records of
\* groups of several records, none of the four fields on the records of
\* singleton groups, one id within a group and different ids for
\* different groups.
C8_AnnotationsOnlyOnGroups ==
    [][(Unannotated /\ op' = "annotate_duplicates") => AnnotationsFollowGroups']_vars

\* C8 happens: annotate mode found a singleton group and a group of several
\* records
C8_Witness ==
    /\ op = "annotate_duplicates"
    /\ info.group_count = 1
    /\ \E g \in 1..Len(groups) : Len(groups[g]) = 1
    /\ \A o \in Objs : o \notin Range(questions) => DOMAIN heap[o] \cap AnnotationKeys = {}

\* the groups of several positions, in the order returned
BigGroups == SelectSeq(groups, LAMBDA group : Len(group) > 1)

\* the earliest position of a group
Earliest(group) == CHOOSE p \in Range(group) : \A r \in Range(group) : p <= r

\* C9: the k groups of several records get the ids 1..k in the order of
\* their earliest members, in the report and on their records; singleton
\* groups take no id.
C9_GroupIdsConsecutiveInInputOrder ==
    op = "annotate_duplicates" =>
        /\ Len(info.groups) = Len(BigGroups)
        /\ \A k \in 1..Len(BigGroups) :
               /\ info.groups[k].group_id = k
               /\ \A p \in Range(BigGroups[k]) :
                      heap[questions[p]]["duplicate_group_id"] = k
        /\ \A k \in 1..(Len(BigGroups) - 1) :
               Earliest(BigGroups[k]) < Earliest(BigGroups[k + 1])

\* C9 happens: annotate mode numbered two groups of several records
C9_Witness ==
    /\ op = "annotate_duplicates"
    /\ Len(BigGroups) = 2
    /\ info.groups[2].group_id = 2

\* C10: in annotate mode of either detector the duplicate_similarity of a
\* member that is not the representative is the combined similarity of the
\* four signals between the member and the representative of its group,
\* rounded to 4 decimals.
C10_MemberSimilarityIsCombined ==
    op = "annotate_duplicates" =>
        \A g \in 1..Len(groups) :
            Len(groups[g]) > 1 =>
                \A q \in Range(Records(questions, groups[g])) \ Flagged(groups[g]) :
                    \A r \in Flagged(groups[g]) :
                        heap[q]["duplicate_similarity"]
                            = Round4(calculate_similarity(sentence_model,
                                                          heap[q], heap[r]))

\* ---------------------------------------------------------------------
\* Properties of repeated calls, of the report and of the frame
\* ---------------------------------------------------------------------
\* the group id and the representative flag of every listed record are the
\* same in the next state
SameIdsAndRepresentatives ==
    \A o \in Range(questions) :
        /\ DOMAIN heap'[o] = DOMAIN heap[o]
        /\ "duplicate_group_id" \in DOMAIN heap[o] =>
               /\ heap'[o]["duplicate_group_id"] = heap[o]["duplicate_group_id"]
               /\ heap'[o]["duplicate_representative"]
                      = heap[o]["duplicate_representative"]

\* C11: an annotate_duplicates call on the records a previous
\* annotate_duplicates call returned, with the same threshold, finds the
\* same groups and leaves every record's group id and representative flag
\* as the previous call set them.
C11_AnnotateIsIdempotent ==
    [][(op = "annotate_duplicates" /\ op' = "annotate_duplicates")
           => (groups' = groups /\ SameIdsAndRepresentatives)]_vars

\* C11 happens: the state an annotate call returns and the next annotate
\* call starts from, with a singleton group and an annotated group whose
\* representative is not its first member
C11_Witness ==
    /\ op = "annotate_duplicates"
    /\ Len(BigGroups) = 1
    /\ Len(groups) = 2
    /\ heap[questions[BigGroups[1][1]]]["duplicate_representative"] = FALSE

\* C12: for an empty input list, with any threshold, remove_duplicates
\* returns an empty kept list and an empty removed list, and
\* annotate_duplicates returns an empty record list and a report whose
\* group_count and duplicate_question_count are 0; neither call fails.
C12_EmptyInputGivesEmptyResults ==
    questions = <<>> =>
        /\ op = "remove_duplicates" =>
               (unique_questions = <<>> /\ removed_duplicates = <<>>)
        /\ op = "annotate_duplicates" =>
               /\ annotated = <<>>
               /\ {"group_count", "duplicate_question_count"} \subseteq DOMAIN info
               /\ info["group_count"] = 0
               /\ info["duplicate_question_count"] = 0

\* C12 happens: annotate_duplicates has returned for an empty list
C12_Witness ==
    /\ questions = <<>>
    /\ op = "annotate_duplicates"
    /\ Simple

\* the positions of the returned list whose record has is_duplicate = true
DuplicatePositions ==
    { p \in DOMAIN annotated :
        /\ "is_duplicate" \in DOMAIN heap[annotated[p]]
        /\ heap[annotated[p]]["is_duplicate"] = TRUE }

\* the report's counts are those of the groups of several records
ReportCountsFollowGroups ==
    /\ {"group_count", "duplicate_question_count"} \subseteq DOMAIN info
    /\ info["group_count"] = Len(BigGroups)
    /\ info["duplicate_question_count"]
           = SumSeq([g \in DOMAIN BigGroups |-> Len(BigGroups[g])])
    /\ info["duplicate_question_count"] = Cardinality(DuplicatePositions)

\* the report states the detector's threshold
ReportStatesThreshold ==
    /\ "similarity_threshold" \in DOMAIN info
    /\ info["similarity_threshold"] = similarity_threshold

\* C13: every report annotate_duplicates returns, the one for an empty
\* list included, states group_count = the number of groups of several
\* records, duplicate_question_count = the sum of their sizes = the number
\* of returned records with is_duplicate = true, and similarity_threshold =
\* the detector's threshold.
C13_ReportStatesCountsAndThreshold ==
    op = "annotate_duplicates" =>
        (ReportCountsFollowGroups /\ ReportStatesThreshold)

\* the same for the reports of non-empty lists only
C13_NonEmptyReportStatesCountsAndThreshold ==
    (op = "annotate_duplicates" /\ questions # <<>>) =>
        (ReportCountsFollowGroups /\ ReportStatesThreshold)


\* every field of every record that is not an annotation field is kept with
\* its value, and no other field appears
CallerFieldsKept ==
    \A o \in Objs :
        /\ DOMAIN heap[o] \ AnnotationKeys = DOMAIN heap'[o] \ AnnotationKeys
        /\ \A key \in DOMAIN heap[o] \ AnnotationKeys : heap'[o][key] = heap[o][key]

\* C14: remove_duplicates changes no field of any record and not the
\* caller's list; annotate_duplicates returns the input records in the
\* input order and count, and on each record only adds or overwrites the
\* four annotation fields.
C14_FrameOfTheTwoModes ==
    [][/\ op' = "remove_duplicates" => (heap' = heap /\ questions' = questions)
       /\ op' = "annotate_duplicates" =>
              /\ annotated' = questions
              /\ questions' = questions
              /\ CallerFieldsKept]_vars

\* C14 happens: annotate_duplicates has annotated the record with an image
\* and an answer, listed with two more records
C14_Witness ==
    /\ op = "annotate_duplicates"
    /\ Len(annotated) = 3
    /\ "is_duplicate" \in DOMAIN heap[1]
    /\ "image" \in DOMAIN heap[1]

\* ---------------------------------------------------------------------
\* Degraded mode
\* ---------------------------------------------------------------------
\* the default decision threshold of annotate_duplicates_in_questions and
\* parse_excel, 0.8
DefaultThreshold == 80000

\* the positions i and j hold records with the same comparable text
SameTextAt(i, j) ==
    _extract_question_text(heap[questions[i]])
        = _extract_question_text(heap[questions[j]])

\* C20: when the sentence model is not loaded, a detection call at the
\* default threshold 0.8 puts two records with identical comparable text
\* in the same group.
C20_DegradedModeGroupsIdenticalTexts ==
    (/\ Simple
     /\ op # "init"
     /\ ~sentence_model.loaded
     /\ similarity_threshold = DefaultThreshold) =>
        \A i, j \in 1..Len(questions) : SameTextAt(i, j) => GroupOf(i) = GroupOf(j)

\* ---------------------------------------------------------------------
\* Malformed records and the lowest accepted threshold
\* ---------------------------------------------------------------------
\* the catalogue and two malformed records: 5 has an empty question text,
\* 6 has no question text at all
EdgeCatalogue ==
    Catalogue \o
    << [type |-> "true/false", question |-> <<>>,
        answer |-> <<"T","r","u","e">>, category |-> <<"B","i","o">>],
       [type |-> "written question",
        answer |-> <<"n","o">>, category |-> <<"B","i","o">>] >>

EdgeObjs == 1..Len(EdgeCatalogue)

\* the longest list of the edge cases
EdgeLen == 3

EdgeLists ==
    { l \in UNION { [1..n -> EdgeObjs] : n \in 0..EdgeLen } :
        \A k \in 1..Len(l) : l[k] = 3 => \E m \in 1..(k - 1) : l[m] = 2 }

\* thresholds the range check of the upload accepts: 0.0, 0.8, 1.0
EdgeThresholds == {0, 80000, 100000}

\* QuestionDuplicateDetector(similarity_threshold) and a list that may hold
\* malformed records
EdgeInit ==
    /\ questions \in EdgeLists
    /\ heap = [o \in EdgeObjs |-> EdgeCatalogue[o]]
    /\ similarity_threshold \in EdgeThresholds
    /\ sentence_model \in SentenceModels
    /\ detector = "QuestionDuplicateDetector"
    /\ use_cache = FALSE
    /\ similarity_cache = <<>>
    /\ op = "init"
    /\ groups = <<>>
    /\ unique_questions = <<>>
    /\ removed_duplicates = <<>>
    /\ annotated = <<>>
    /\ info = NoInfo
    /\ NoRequest
    /\ NoBatch

EdgeNext ==
    \/ FindDuplicateGroups
    \/ RemoveDuplicates
    \/ AnnotateDuplicates

EdgeSpec == EdgeInit /\ [][EdgeNext]_vars

\* the record has no question text: the field is missing or empty
Malformed(question) == Get(question, "question") = <<>>

\* the record at position p has combined similarity 0 to the record at every
\* other position and is alone in its group
AloneAt(p) ==
    /\ \A q \in (1..Len(questions)) \ {p} :
           calculate_similarity(sentence_model, heap[questions[p]],
                                heap[questions[q]]) = 0
    /\ groups[GroupOf(p)] = <<p>>

\* C18: a record without question text has combined similarity 0 to every
\* other record and is in a singleton group, for every threshold in
\* [0.0, 1.0], 0.0 included.
C18_MalformedRecordsStayAlone ==
    op # "init" =>
        \A p \in 1..Len(questions) : Malformed(heap[questions[p]]) => AloneAt(p)

\* the same for the thresholds above 0.0 only
C18_MalformedRecordsStayAloneAboveZero ==
    (op # "init" /\ similarity_threshold > 0) =>
        \A p \in 1..Len(questions) : Malformed(heap[questions[p]]) => AloneAt(p)

\* ---------------------------------------------------------------------
\* The text functions on records with fields of any type
\* ---------------------------------------------------------------------
\* the field is not in the dict
Absent == <<"absent">>

\* a record of a type with a question text, an option a and an answer
TextRecord(type, question, a, answer) ==
    Table([key \in {"type"} \cup (IF question # Absent THEN {"question"} ELSE {})
                            \cup (IF a # Absent THEN {"a"} ELSE {})
                            \cup (IF answer # Absent THEN {"answer"} ELSE {}) |->
              CASE key = "type"     -> type
                [] key = "question" -> question
                [] key = "a"        -> a
                [] OTHER            -> answer])

\* a cell value: text, blank text, a number, a blank cell (NaN), or no column
TextValues ==
    { Absent, <<>>, <<"C","a","t","s","?">>, Float("5.0"), NaN }

\* an answer long enough to be part of a written question's text
LongAnswer ==
    <<"c","a","t","s"," ","e","a","t"," ","f","i","s","h"," ","t","o","d","a","y",
      " ","t","o","o">>

TextRecords ==
    { TextRecord(type, question, a, answer) :
        type \in {"multiple choice", "true/false", "written question"},
        question \in TextValues,
        a \in {Absent, <<"m","e","a","t">>, Float("0.0"), NaN},
        answer \in {Absent, <<"n","o">>, LongAnswer, Float("2.0")} }

\* a detector and one record
TextInit ==
    /\ questions = <<1>>
    /\ heap \in { Table([o \in {1} |-> r]) : r \in TextRecords }
    /\ similarity_threshold = DefaultThreshold
    /\ sentence_model = [loaded |-> FALSE, encode |-> <<>>]
    /\ detector = "QuestionDuplicateDetector"
    /\ use_cache = FALSE
    /\ similarity_cache = <<>>
    /\ op = "init"
    /\ groups = <<>>
    /\ unique_questions = <<>>
    /\ removed_duplicates = <<>>
    /\ annotated = <<>>
    /\ info = NoInfo
    /\ NoRequest
    /\ NoBatch

\* detector._extract_question_text(question)
ExtractQuestionText ==
    /\ op' = "_extract_question_text"
    /\ returned' = TryExtractQuestionText(heap[questions[1]])
    /\ UNCHANGED <<config, pool, heap, similarity_cache, groups, unique_questions,
                   removed_duplicates, annotated, info, request, disable_ml_features,
                   pc, worker, dup_result_container, elapsed, all_questions, metadata>>

\* detector.normalize_text(text) on a field of the record, or on the value
\* _extract_question_text has returned
NormalizeText ==
    /\ \E text \in { heap[questions[1]][key] :
                       key \in DOMAIN heap[questions[1]] \ {"type"} }
                   \cup (IF op = "_extract_question_text" /\ "value" \in DOMAIN returned
                         THEN {returned["value"]} ELSE {}) :
           returned' = Returns(normalize_text(text))
    /\ op' = "normalize_text"
    /\ UNCHANGED <<config, pool, heap, similarity_cache, groups, unique_questions,
                   removed_duplicates, annotated, info, request, disable_ml_features,
                   pc, worker, dup_result_container, elapsed, all_questions, metadata>>

TextNext ==
    \/ ExtractQuestionText
    \/ NormalizeText

TextSpec == TextInit /\ [][TextNext]_vars

\* C19: normalize_text and _extract_question_text never raise and return a
\* str for every record, also when the question text, an option or the
\* answer is missing or is not a str (a number, NaN).
C19_TextFunctionsReturnStrings ==
    op \in {"_extract_question_text", "normalize_text"} =>
        /\ "value" \in DOMAIN returned
        /\ IsStr(returned["value"])

\* normalize_text alone returns a str for every value
C19_NormalizeTextReturnsString ==
    op = "normalize_text" =>
        /\ "value" \in DOMAIN returned
        /\ IsStr(returned["value"])

\* ---------------------------------------------------------------------
\* The upload: app.upload, app.analyze_duplicates and parse_excel with its
\* detection worker thread.  The grammar checking phase of parse_excel is not
\* part of the model.
\* ---------------------------------------------------------------------
\* the record parse_excel builds from a row: the image cell goes to
\* image_description
ParsedRecord(row) ==
    Table([key \in (DOMAIN row \ {"image"}) \cup {"image_description"} |->
              IF key = "image_description" THEN Get(row, "image") ELSE row[key]])

\* the rows of the uploaded file: the catalogue, and as row 5 a multiple
\* choice row whose question cell is blank
ServerCatalogue ==
    [o \in Objs |-> ParsedRecord(Catalogue[o])] \o
    << [type |-> "multiple choice", question |-> NaN,
        a |-> <<"m","e","a","t">>, b |-> <<>>, answer |-> <<"a">>,
        category |-> <<"B","i","o">>, image_description |-> <<>>] >>

ServerObjs == 1..Len(ServerCatalogue)

\* the records as parse_excel builds them
ServerHeap == Table([o \in ServerObjs |-> ServerCatalogue[o]])

\* the most rows of an uploaded file
ServerLen == 3

\* the rows of a file, each row one record; row 3 only after row 2
ServerLists ==
    { l \in UNION { [1..n -> ServerObjs] : n \in 0..ServerLen } :
        /\ \A k, m \in 1..Len(l) : l[k] = l[m] => k = m
        /\ \A k \in 1..Len(l) : l[k] = 3 => \E m \in 1..(k - 1) : l[m] = 2 }

\* similarityThreshold of the form: -0.1, 0.6, 0.8, 1.5
FormThresholds == {0 - 10000, 60000, 80000, 150000}

Requests ==
    { [endpoint |-> "upload", removeDuplicates |-> r, similarityThreshold |-> t] :
        r \in BOOLEAN, t \in FormThresholds }
    \cup
    { [endpoint |-> "analyze_duplicates", removeDuplicates |-> FALSE,
       similarityThreshold |-> t] : t \in FormThresholds }

\* 0.0 <= similarity_threshold <= 1.0
InRange(threshold) == 0 <= threshold /\ threshold <= 10 * SCALE

\* the arguments of the call of parse_excel
ParseRemoveDuplicates == request.endpoint = "upload" /\ request.removeDuplicates

ParseThreshold ==
    IF request.endpoint = "upload" THEN request.similarityThreshold
    ELSE DefaultThreshold

\* dup_timeout_seconds
dup_timeout_seconds == 120

\* the seconds of one modelled round of the wait loop
SleepStep == 60

\* a request has been received; the file has the rows of `questions`
ServerInit ==
    /\ questions \in ServerLists
    /\ heap = ServerHeap
    /\ similarity_threshold = DefaultThreshold
    /\ sentence_model \in SentenceModels
    /\ detector = "QuestionDuplicateDetector"
    /\ use_cache = FALSE
    /\ similarity_cache = <<>>
    /\ op = "init"
    /\ groups = <<>>
    /\ unique_questions = <<>>
    /\ removed_duplicates = <<>>
    /\ annotated = <<>>
    /\ info = NoInfo
    /\ request \in Requests
    /\ disable_ml_features \in BOOLEAN
    /\ pc = "received"
    /\ worker = [state |-> "none", done |-> 0]
    /\ dup_result_container = <<>>
    /\ elapsed = 0
    /\ all_questions = <<>>
    /\ metadata = <<>>
    /\ returned = <<>>
    /\ NoBatch

detection == <<detector, similarity_threshold, sentence_model, use_cache, similarity_cache,
               op, groups, unique_questions, removed_duplicates, annotated, info, pool>>

\* upload: the range check of similarityThreshold
UploadValidate ==
    /\ request.endpoint = "upload"
    /\ pc = "received"
    /\ IF InRange(request.similarityThreshold)
       THEN pc' = "parse_excel" /\ returned' = returned
       ELSE pc' = "done" /\ returned' = [status |-> 400]
    /\ UNCHANGED <<questions, heap, detection, request, disable_ml_features, worker,
                   dup_result_container, elapsed, all_questions, metadata>>

\* parse_excel up to the detection phase: the records of the rows
ParseQuestions ==
    /\ \/ request.endpoint = "upload" /\ pc = "parse_excel"
       \/ request.endpoint = "analyze_duplicates" /\ pc = "received"
    /\ all_questions' = questions
    /\ pc' = "detect"
    /\ UNCHANGED <<questions, heap, detection, request, disable_ml_features, worker,
                   dup_result_container, elapsed, metadata, returned>>

\* parse_excel: no questions, or the ML features are disabled
SkipDetection ==
    /\ pc = "detect"
    /\ all_questions = <<>> \/ disable_ml_features
    /\ metadata' = [duplicate_detection |->
                       [enabled |-> FALSE,
                        reason  |-> IF disable_ml_features
                                    THEN "ML features disabled via environment"
                                    ELSE "No questions to process"]]
    /\ pc' = "parsed"
    /\ UNCHANGED <<questions, heap, detection, request, disable_ml_features, worker,
                   dup_result_container, elapsed, all_questions, returned>>

\* parse_excel: the container is created and the worker thread started
StartWorker ==
    /\ pc = "detect"
    /\ all_questions # <<>> /\ ~disable_ml_features
    /\ dup_result_container' = [result |-> <<>>, error |-> "None", completed |-> FALSE]
    /\ worker' = [state |-> "started", done |-> 0]
    /\ elapsed' = 0
    /\ pc' = "wait"
    /\ UNCHANGED <<questions, heap, detection, request, disable_ml_features,
                   all_questions, metadata, returned>>

\* dup_thread.is_alive()
IsAlive == worker.state \in {"started", "detected", "completed"}

\* parse_excel: one round of the wait loop
Sleep ==
    /\ pc = "wait"
    /\ IsAlive /\ elapsed < dup_timeout_seconds
    /\ elapsed' = elapsed + SleepStep
    /\ UNCHANGED <<questions, heap, detection, request, disable_ml_features, pc, worker,
                   dup_result_container, all_questions, metadata, returned>>

\* parse_excel: the wait loop ends, the thread is dead or the time is over
EndWait ==
    /\ pc = "wait"
    /\ ~(IsAlive /\ elapsed < dup_timeout_seconds)
    /\ pc' = "check"
    /\ UNCHANGED <<questions, heap, detection, request, disable_ml_features, worker,
                   dup_result_container, elapsed, all_questions, metadata, returned>>

\* a call of find_duplicate_groups on the list raises: with two records or
\* more, the text of every record is extracted in the first round of the
\* outer loop
DetectionRaises(hp, list) ==
    /\ Len(list) >= 2
    /\ \E p \in 1..Len(list) : "raised" \in DOMAIN TryExtractQuestionText(hp[list[p]])

TimeoutMessage == "Duplicate detection timed out after 120 seconds"

\* CheckCompleted without the report of a timeout: the metadata stay as they are
CheckCompletedSilentTimeout ==
    /\ pc = "check"
    /\ IF dup_result_container.completed
       THEN IF dup_result_container.error # "None"
            THEN /\ metadata' = [duplicate_detection |->
                                    [enabled |-> FALSE,
                                     error   |-> dup_result_container.error]]
                 /\ all_questions' = all_questions
            ELSE /\ all_questions' = dup_result_container.result.questions
                 /\ metadata' =
                        [duplicate_detection |->
                            IF dup_result_container.result.mode = "remove"
                            THEN [enabled |-> TRUE, mode |-> "remove",
                                  original_count |-> dup_result_container.result.original_count,
                                  final_count |-> Len(dup_result_container.result.questions),
                                  removed_count |-> Len(dup_result_container.result.extra_data),
                                  similarity_threshold |-> ParseThreshold,
                                  removed_duplicates |-> dup_result_container.result.extra_data]
                            ELSE [enabled |-> TRUE, mode |-> "annotate",
                                  original_count |-> dup_result_container.result.original_count,
                                  final_count |-> Len(dup_result_container.result.questions),
                                  removed_count |-> 0,
                                  similarity_threshold |-> ParseThreshold,
                                  duplicate_groups |-> dup_result_container.result.extra_data]]
       ELSE /\ metadata' = metadata
            /\ all_questions' = all_questions
    /\ pc' = "parsed"
    /\ UNCHANGED <<questions, heap, detection, request, disable_ml_features, worker,
                   dup_result_container, elapsed, returned>>

\* parse_excel: the test of the container after the wait, to the end of the
\* detection phase
CheckCompleted ==
    /\ pc = "check"
    /\ IF dup_result_container.completed
       THEN IF dup_result_container.error # "None"
            THEN /\ metadata' = [duplicate_detection |->
                                    [enabled |-> FALSE,
                                     error   |-> dup_result_container.error]]
                 /\ all_questions' = all_questions
            ELSE /\ all_questions' = dup_result_container.result.questions
                 /\ metadata' =
                        [duplicate_detection |->
                            IF dup_result_container.result.mode = "remove"
                            THEN [enabled |-> TRUE, mode |-> "remove",
                                  original_count |-> dup_result_container.result.original_count,
                                  final_count |-> Len(dup_result_container.result.questions),
                                  removed_count |-> Len(dup_result_container.result.extra_data),
                                  similarity_threshold |-> ParseThreshold,
                                  removed_duplicates |-> dup_result_container.result.extra_data]
                            ELSE [enabled |-> TRUE, mode |-> "annotate",
                                  original_count |-> dup_result_container.result.original_count,
                                  final_count |-> Len(dup_result_container.result.questions),
                                  removed_count |-> 0,
                                  similarity_threshold |-> ParseThreshold,
                                  duplicate_groups |-> dup_result_container.result.extra_data]]
       ELSE /\ metadata' = [duplicate_detection |->
                               [enabled |-> FALSE, error |-> TimeoutMessage]]
            /\ all_questions' = all_questions
    /\ pc' = "parsed"
    /\ UNCHANGED <<questions, heap, detection, request, disable_ml_features, worker,
                   dup_result_container, elapsed, returned>>

\* the worker: the detector is constructed and the groups are found (remove
\* mode: the whole of remove_duplicates, which changes no record)
WorkerDetect ==
    /\ worker.state = "started"
    /\ similarity_threshold' = ParseThreshold
    /\ op' = IF ParseRemoveDuplicates THEN "remove_duplicates" ELSE "annotate_duplicates"
    /\ IF DetectionRaises(heap, questions)
       THEN /\ dup_result_container' =
                   [result |-> <<>>, error |-> "TypeError", completed |-> TRUE]
            /\ worker' = [state |-> "completed", done |-> 0]
            /\ UNCHANGED <<groups, unique_questions, removed_duplicates>>
       ELSE IF ParseRemoveDuplicates
       THEN /\ \E r \in {remove_duplicates(sentence_model, ParseThreshold, heap, questions)} :
                   /\ unique_questions' = r.unique_questions
                   /\ removed_duplicates' = r.removed_duplicates
                   /\ groups' = r.duplicate_groups
            /\ worker' = [state |-> "detected", done |-> 0]
            /\ dup_result_container' = dup_result_container
       ELSE /\ groups' = find_duplicate_groups(sentence_model, ParseThreshold, heap, questions)
            /\ worker' = [state |-> "detected", done |-> 0]
            /\ UNCHANGED <<unique_questions, removed_duplicates, dup_result_container>>
    /\ UNCHANGED <<questions, heap, detector, sentence_model, use_cache, similarity_cache, pool,
                   annotated, info, request, disable_ml_features, pc, elapsed,
                   all_questions, metadata, returned>>

\* the worker, annotate mode: one round of the loop over the groups, which
\* sets the annotation fields of the members of a group of several records
WorkerAnnotateGroup ==
    /\ worker.state = "detected"
    /\ ~ParseRemoveDuplicates
    /\ worker.done < Len(groups)
    /\ heap' = AnnotateLoop(sentence_model, heap, questions,
                            SubSeq(groups, 1, worker.done + 1), 1, <<>>, 1, 0).heap
    /\ worker' = [state |-> "detected", done |-> worker.done + 1]
    /\ UNCHANGED <<questions, detection, request, disable_ml_features, pc,
                   dup_result_container, elapsed, all_questions, metadata, returned>>

\* the worker: the result is put into the container, completed is set
WorkerComplete ==
    /\ worker.state = "detected"
    /\ ParseRemoveDuplicates \/ worker.done = Len(groups)
    /\ IF ParseRemoveDuplicates
       THEN /\ dup_result_container' =
                   [result |-> [questions |-> unique_questions,
                                extra_data |-> removed_duplicates,
                                original_count |-> Len(questions), mode |-> "remove"],
                    error |-> "None", completed |-> TRUE]
            /\ UNCHANGED <<annotated, info>>
       ELSE \E r \in {annotate_duplicates(sentence_model, similarity_threshold, heap, questions)} :
                /\ annotated' = r.annotated
                /\ info' = r.info
                /\ dup_result_container' =
                       [result |-> [questions |-> r.annotated, extra_data |-> r.info,
                                    original_count |-> Len(questions), mode |-> "annotate"],
                        error |-> "None", completed |-> TRUE]
    /\ worker' = [state |-> "completed", done |-> worker.done]
    /\ UNCHANGED <<questions, heap, config, pool, similarity_cache, op, groups, unique_questions,
                   removed_duplicates, request, disable_ml_features, pc, elapsed,
                   all_questions, metadata, returned>>

\* the worker thread ends
WorkerExit ==
    /\ worker.state = "completed"
    /\ worker' = [state |-> "dead", done |-> worker.done]
    /\ UNCHANGED <<questions, heap, detection, request, disable_ml_features, pc,
                   dup_result_container, elapsed, all_questions, metadata, returned>>

\* upload after parse_excel: in remove mode the kept records are annotated by
\* a second detector, a failure of which is only logged; the response
UploadRespond ==
    /\ request.endpoint = "upload"
    /\ pc = "parsed"
    /\ IF request.removeDuplicates /\ ~DetectionRaises(heap, all_questions)
       THEN \E r \in {annotate_duplicates(sentence_model, request.similarityThreshold,
                                         heap, all_questions)} :
                /\ heap' = r.heap
                /\ metadata' =
                       [duplicate_detection |->
                           ("post_removal_annotation" :> r.info)
                               @@ metadata.duplicate_detection]
                /\ returned' = [status |-> 200, questions |-> r.annotated]
       ELSE /\ returned' = [status |-> 200, questions |-> all_questions]
            /\ UNCHANGED <<heap, metadata>>
    /\ pc' = "done"
    /\ UNCHANGED <<questions, detection, request, disable_ml_features, worker,
                   dup_result_container, elapsed, all_questions>>

\* analyze_duplicates after parse_excel: the range check of similarityThreshold
AnalyzeValidate ==
    /\ request.endpoint = "analyze_duplicates"
    /\ pc = "parsed"
    /\ IF InRange(request.similarityThreshold)
       THEN pc' = "analyze" /\ returned' = returned
       ELSE pc' = "done" /\ returned' = [status |-> 400]
    /\ UNCHANGED <<questions, heap, detection, request, disable_ml_features, worker,
                   dup_result_container, elapsed, all_questions, metadata>>

\* analyze_duplicates: the groups a second detector finds; the response
AnalyzeRespond ==
    /\ request.endpoint = "analyze_duplicates"
    /\ pc = "analyze"
    /\ IF DetectionRaises(heap, all_questions)
       THEN returned' = [status |-> 500]
       ELSE returned' =
                [status |-> 200,
                 total_questions |-> Len(all_questions),
                 duplicate_groups |->
                     Len(SelectSeq(find_duplicate_groups(sentence_model,
                                       request.similarityThreshold, heap, all_questions),
                                   LAMBDA group : Len(group) > 1)),
                 similarity_threshold |-> request.similarityThreshold]
    /\ pc' = "done"
    /\ UNCHANGED <<questions, heap, detection, request, disable_ml_features, worker,
                   dup_result_container, elapsed, all_questions, metadata>>

ServerNext ==
    \/ UploadValidate
    \/ ParseQuestions
    \/ SkipDetection
    \/ StartWorker
    \/ Sleep
    \/ EndWait
    \/ CheckCompleted
    \/ WorkerDetect
    \/ WorkerAnnotateGroup
    \/ WorkerComplete
    \/ WorkerExit
    \/ UploadRespond
    \/ AnalyzeValidate
    \/ AnalyzeRespond

ServerSpec == ServerInit /\ [][ServerNext]_vars

\* ---------------------------------------------------------------------
\* Properties of the upload
\* ---------------------------------------------------------------------
\* the detection phase of parse_excel has ended with the timeout
TimedOut ==
    /\ "duplicate_detection" \in DOMAIN metadata
    /\ "error" \in DOMAIN metadata.duplicate_detection
    /\ metadata.duplicate_detection.error = TimeoutMessage

\* C15: when the detection of parse_excel has timed out, the list
\* parse_excel returns is the original list, and the worker it abandoned,
\* which annotates the records in place, has modified no record and
\* modifies none afterwards, whatever the interleaving.
C15_TimeoutSurfacesNoPartialResult ==
    TimedOut =>
        /\ all_questions = questions
        /\ ~ParseRemoveDuplicates => heap = ServerHeap

\* the list alone: after a timeout parse_excel returns the original list
C15_TimeoutReturnsOriginalList ==
    TimedOut => all_questions = questions

\* metadata['duplicate_detection'] says that detection was performed, with
\* the counts and the mode
ReportsDetection ==
    /\ "duplicate_detection" \in DOMAIN metadata
    /\ metadata.duplicate_detection.enabled = TRUE
    /\ {"original_count", "final_count", "mode"}
           \subseteq DOMAIN metadata.duplicate_detection
    /\ metadata.duplicate_detection.original_count = Len(questions)
    /\ metadata.duplicate_detection.final_count = Len(all_questions)
    /\ metadata.duplicate_detection.mode
           = IF ParseRemoveDuplicates THEN "remove" ELSE "annotate"

\* metadata['duplicate_detection'] says that detection was not performed,
\* with an error or a reason
ReportsNoDetection ==
    /\ "duplicate_detection" \in DOMAIN metadata
    /\ metadata.duplicate_detection.enabled = FALSE
    /\ \/ "error" \in DOMAIN metadata.duplicate_detection
       \/ "reason" \in DOMAIN metadata.duplicate_detection

\* the worker has put a result into the container: it has finished, and
\* without an exception
WorkerFinishedWithoutError ==
    /\ worker.state \in {"completed", "dead"}
    /\ ~DetectionRaises(ServerHeap, questions)

Rejected == "status" \in DOMAIN returned /\ returned.status = 400

\* C17: a similarityThreshold outside [0.0, 1.0] is rejected with status 400
\* before the file is parsed and before any duplicate detector runs, in
\* upload and in analyze_duplicates: when the request is rejected,
\* parse_excel has left no metadata and no detection worker was started.
C17_RangeCheckPrecedesDetection ==
    Rejected =>
        /\ "duplicate_detection" \notin DOMAIN metadata
        /\ worker.state = "none"

\* the same for upload alone
C17_UploadRangeCheckPrecedesDetection ==
    (Rejected /\ request.endpoint = "upload") =>
        /\ "duplicate_detection" \notin DOMAIN metadata
        /\ worker.state = "none"

\* ---------------------------------------------------------------------
\* Degraded mode in the report; the signals and the combined similarity
\* ---------------------------------------------------------------------
\* the fields of a report that state the groups, the counts and the threshold
CountFields ==
    {"groups", "group_count", "duplicate_question_count", "similarity_threshold"}

\* C21: when the sentence model failed to load, so that the semantic signal
\* is 0 for every pair, the report annotate_duplicates returns carries a
\* flag that says so: a field besides the groups, the counts and the
\* threshold.
C21_DegradedModeIsFlagged ==
    (op = "annotate_duplicates" /\ ~sentence_model.loaded) =>
        DOMAIN info \ CountFields # {}

\* ---------------------------------------------------------------------
\* The scorers called on a pair of records: QuestionDuplicateDetector's
\* calculate_exact_similarity, calculate_keyword_similarity and
\* calculate_similarity, and the optimized detector's
\* _calculate_similarity_optimized and _compute_detailed_similarities_batch
\* ---------------------------------------------------------------------
\* the angles the embedding model may give a text
EmbedChoices == {0, 1, 4}

\* a parsed true/false record with the question text t
SignalRecord(t) == [type |-> "true/false", question |-> t]

\* the state after __init__ of either detector, with two records q1 and q2,
\* which a scorer compares in either order; the embedding model, when it
\* loaded, is any function of the text
SignalInit ==
    /\ questions = <<1, 2>>
    /\ heap \in { Table([o \in {1, 2} |-> SignalRecord(IF o = 1 THEN t1 ELSE t2)]) :
                    t1 \in SignalTexts, t2 \in SignalTexts }
    /\ similarity_threshold = DefaultThreshold
    /\ sentence_model \in
           {[loaded |-> FALSE, encode |-> <<>>]}
           \cup { [loaded |-> TRUE, encode |-> e] :
                    e \in [{ heap[o].question : o \in {1, 2} } -> EmbedChoices] }
    /\ \/ detector = "QuestionDuplicateDetector" /\ use_cache = FALSE
       \/ detector = "OptimizedQuestionDuplicateDetector" /\ use_cache \in BOOLEAN
    /\ similarity_cache = <<>>
    /\ op = "init"
    /\ groups = <<>>
    /\ unique_questions = <<>>
    /\ removed_duplicates = <<>>
    /\ annotated = <<>>
    /\ info = NoInfo
    /\ NoRequest
    /\ NoBatch

\* what a scorer call leaves alone, the cache apart
scorer_frame == <<config, pool, heap, groups, unique_questions, removed_duplicates,
                  annotated, info, request, disable_ml_features, pc, worker,
                  dup_result_container, elapsed, all_questions, metadata>>

\* detector.calculate_exact_similarity(text_i, text_j)
CalculateExactSimilarity ==
    /\ \E i \in {1, 2} : \E j \in {1, 2} \ {i} :
           returned' = [value |-> calculate_exact_similarity(
                                      _extract_question_text(heap[questions[i]]),
                                      _extract_question_text(heap[questions[j]])),
                        of |-> <<i, j>>]
    /\ op' = "calculate_exact_similarity"
    /\ UNCHANGED <<scorer_frame, similarity_cache>>

\* detector.calculate_keyword_similarity(text_i, text_j)
CalculateKeywordSimilarity ==
    /\ \E i \in {1, 2} : \E j \in {1, 2} \ {i} :
           returned' = [value |-> calculate_keyword_similarity(
                                      _extract_question_text(heap[questions[i]]),
                                      _extract_question_text(heap[questions[j]])),
                        of |-> <<i, j>>]
    /\ op' = "calculate_keyword_similarity"
    /\ UNCHANGED <<scorer_frame, similarity_cache>>

\* the TF-IDF signal of calculate_similarity, which computes it for two
\* non-empty texts
TfidfSimilarity ==
    /\ \E i \in {1, 2} : \E j \in {1, 2} \ {i} :
           /\ _extract_question_text(heap[questions[i]]) # <<>>
           /\ _extract_question_text(heap[questions[j]]) # <<>>
           /\ returned' = [value |-> PairTfidf(
                                         _extract_question_text(heap[questions[i]]),
                                         _extract_question_text(heap[questions[j]])),
                           of |-> <<i, j>>]
    /\ op' = "tfidf_sim"
    /\ UNCHANGED <<scorer_frame, similarity_cache>>

\* the semantic signal of calculate_similarity, which computes it for two
\* non-empty texts when the model is loaded
SemanticSimilarity ==
    /\ sentence_model.loaded
    /\ \E i \in {1, 2} : \E j \in {1, 2} \ {i} :
           /\ _extract_question_text(heap[questions[i]]) # <<>>
           /\ _extract_question_text(heap[questions[j]]) # <<>>
           /\ returned' = [value |-> EmbeddingCosine(
                               sentence_model.encode[
                                   _extract_question_text(heap[questions[i]])],
                               sentence_model.encode[
                                   _extract_question_text(heap[questions[j]])]),
                           of |-> <<i, j>>]
    /\ op' = "semantic_sim"
    /\ UNCHANGED <<scorer_frame, similarity_cache>>

\* detector.calculate_similarity(q_i, q_j)
CalculateSimilarity ==
    /\ detector = "QuestionDuplicateDetector"
    /\ \E i \in {1, 2} : \E j \in {1, 2} \ {i} :
           returned' = [value |-> calculate_similarity(sentence_model,
                                      heap[questions[i]], heap[questions[j]]),
                        of |-> <<i, j>>]
    /\ op' = "calculate_similarity"
    /\ UNCHANGED <<scorer_frame, similarity_cache>>

\* detector._calculate_similarity_optimized(q_i, q_j, text_i, text_j,
\* embedding_i, embedding_j): the batch passes the embeddings of a loaded
\* model, the annotation of a group passes none
CalculateSimilarityOptimized ==
    /\ detector = "OptimizedQuestionDuplicateDetector"
    /\ \E i \in {1, 2} : \E j \in {1, 2} \ {i} :
       \E with_embeddings \in {sentence_model.loaded, FALSE} :
       \E r \in {_calculate_similarity_optimized(use_cache, similarity_cache,
                     _extract_question_text(heap[questions[i]]),
                     _extract_question_text(heap[questions[j]]),
                     IF with_embeddings
                     THEN <<sentence_model.encode[
                              _extract_question_text(heap[questions[i]])]>>
                     ELSE <<>>,
                     IF with_embeddings
                     THEN <<sentence_model.encode[
                              _extract_question_text(heap[questions[j]])]>>
                     ELSE <<>>)} :
           /\ returned' = [value |-> r.value, of |-> <<i, j>>,
                           embeddings |-> with_embeddings]
           /\ similarity_cache' = r.cache
    /\ op' = "_calculate_similarity_optimized"
    /\ UNCHANGED scorer_frame

\* the similarity matrix find_duplicate_groups_optimized builds for the two
\* records: the prefilter, then _compute_detailed_similarities_batch
ComputeDetailedSimilaritiesBatch ==
    /\ detector = "OptimizedQuestionDuplicateDetector"
    /\ \E texts \in {List([k \in 1..Len(questions) |->
                            _extract_question_text(heap[questions[k]])])} :
       \E r \in {_compute_detailed_similarities_batch(sentence_model, use_cache,
                     similarity_cache, texts,
                     _find_candidate_pairs(_compute_tfidf_batch(texts),
                                           PrefilterThreshold))} :
           /\ returned' = [value |-> r.matrix, of |-> <<1, 2>>]
           /\ similarity_cache' = r.cache
    /\ op' = "_compute_detailed_similarities_batch"
    /\ UNCHANGED scorer_frame

SignalNext ==
    \/ CalculateExactSimilarity
    \/ CalculateKeywordSimilarity
    \/ TfidfSimilarity
    \/ SemanticSimilarity
    \/ CalculateSimilarity
    \/ CalculateSimilarityOptimized
    \/ ComputeDetailedSimilaritiesBatch

SignalSpec == SignalInit /\ [][SignalNext]_vars

\* C22: calculate_similarity gives the same value with its two records
\* exchanged, and the similarity matrix of the optimized detector is
\* symmetric with 1.0 on its diagonal
C22_SimilarityIsSymmetric ==
    /\ op = "calculate_similarity" =>
           returned.value = calculate_similarity(sentence_model,
                                heap[questions[returned.of[2]]],
                                heap[questions[returned.of[1]]])
    /\ op = "_compute_detailed_similarities_batch" =>
           \A i \in 1..Len(returned.value), j \in 1..Len(returned.value) :
               /\ returned.value[i][j] = returned.value[j][i]
               /\ returned.value[i][i] = 10 * SCALE

\* two different records compared, the second first, and found partly alike
C22_Witness ==
    /\ op = "calculate_similarity"
    /\ returned.of = <<2, 1>>
    /\ heap[1] # heap[2]
    /\ returned.value > 0
    /\ returned.value < 10 * SCALE

\* the text of the record at a position of the list
TextAt(i) == _extract_question_text(heap[questions[i]])

\* C23: a scorer applied to a non-empty text against itself returns 1.0,
\* and the combined similarity of two records whose non-empty texts are
\* identical after normalization is 1.0
C23_TextAgainstItselfScoresOne ==
    /\ ( /\ op \in {"calculate_exact_similarity", "calculate_keyword_similarity",
                    "tfidf_sim", "semantic_sim"}
         /\ TextAt(1) = TextAt(2)
         /\ TextAt(1) # <<>> ) => returned.value = SCALE
    /\ ( /\ op = "calculate_similarity"
         /\ normalize_text(TextAt(1)) = normalize_text(TextAt(2))
         /\ TextAt(1) # <<>>
         /\ TextAt(2) # <<>> ) => returned.value = 10 * SCALE

\* C24: the combined similarity of either detector lies in [0,1], and the
\* semantic signal that enters it lies in [0,1]
C24_CombinedSimilarityInUnitInterval ==
    /\ op \in {"calculate_similarity", "_calculate_similarity_optimized"} =>
           returned.value >= 0 /\ returned.value <= 10 * SCALE
    /\ op = "semantic_sim" => returned.value >= 0 /\ returned.value <= SCALE

\* C25: calculate_exact_similarity and calculate_keyword_similarity return
\* 0.0 when at least one of the two texts is empty or normalizes to the
\* empty string
C25_EmptyTextScoresZero ==
    ( /\ op \in {"calculate_exact_similarity", "calculate_keyword_similarity"}
      /\ \/ normalize_text(TextAt(1)) = <<>>
         \/ normalize_text(TextAt(2)) = <<>> ) => returned.value = 0

\* the embedding passed for the text at a position: <<e>>, or <<>> for None
EmbeddingArgument(i, with_embeddings) ==
    IF with_embeddings THEN <<sentence_model.encode[TextAt(i)]>> ELSE <<>>

\* C30: the value _calculate_similarity_optimized returns is the value a
\* fresh computation with the same arguments gives, whatever the cache holds
C30_CacheIsTransparent ==
    op = "_calculate_similarity_optimized" =>
        returned.value =
            _calculate_similarity_optimized(FALSE, <<>>,
                TextAt(returned.of[1]), TextAt(returned.of[2]),
                EmbeddingArgument(returned.of[1], returned.embeddings),
                EmbeddingArgument(returned.of[2], returned.embeddings)).value

\* ---------------------------------------------------------------------
\* find_duplicate_groups_optimized with its thread pool: the candidate
\* pairs are computed by worker threads that share self.vectorizer and
\* self._similarity_cache
\* ---------------------------------------------------------------------
RECURSIVE SortTerms(_)
\* the terms of a vocabulary in the order of their columns: sorted as
\* strings, a bigram being its two tokens joined by a blank
SortTerms(S) ==
    IF S = {} THEN <<>>
    ELSE LET least == CHOOSE x \in S :
                          \A y \in S \ {x} : TextLess(JoinSp(x), JoinSp(y))
         IN  <<least>> \o SortTerms(S \ {least})

\* self.vectorizer after fitting it on docs: the idf (times 100) of every
\* column
FittedIdf(docs) ==
    LET n == Len(docs)
        OfVocabulary(terms, vocab) ==
            List([x \in 1..Len(vocab) |->
                Idf100(n, Cardinality({ k \in 1..n : vocab[x] \in Range(terms[k]) }))])
        OfTerms(terms) ==
            OfVocabulary(terms, SortTerms(UNION { Range(terms[k]) : k \in 1..n }))
    IN  OfTerms(List([k \in 1..n |-> TfidfTerms(docs[k])]))

\* the transform step of fit_transform([text1, text2]) with the idf the
\* shared vectorizer holds at that moment, and the cosine of the two rows;
\* the product raises when the idf has another number of columns
TransformCosine(docs, idf) ==
    LET Weighted(terms, vocab) ==
            List([k \in 1..2 |->
                List([x \in 1..Len(vocab) |->
                    Cardinality({ y \in 1..Len(terms[k]) : terms[k][y] = vocab[x] })
                        * idf[x]])])
        OfRows(matrix) == VectorCosine(matrix[1], matrix[2])
        OfVocabulary(terms, vocab) ==
            IF Len(idf) # Len(vocab) THEN Raises("ValueError")
            ELSE Returns(OfRows(Weighted(terms, vocab)))
        OfTerms(terms) ==
            OfVocabulary(terms, SortTerms(UNION { Range(terms[k]) : k \in 1..2 }))
    IN  OfTerms(List([k \in 1..2 |-> TfidfTerms(docs[k])]))

\* the records of the batch: the catalogue and a record unrelated to it
BatchCatalogue ==
    Catalogue \o
    << [type |-> "true/false",
        question |-> <<"d","o","g","s"," ","b","a","r","k">>,
        answer |-> <<"T","r","u","e">>, category |-> <<"B","i","o">>] >>

BatchObjs == 1..Len(BatchCatalogue)

\* longest list of the batch
BatchLen == 3

BatchLists ==
    { l \in UNION { [1..n -> BatchObjs] : n \in 0..BatchLen } :
        \A k \in 1..Len(l) : l[k] = 3 => \E m \in 1..(k - 1) : l[m] = 2 }

\* thresholds the range check of the upload accepts: 0.0, 0.6, 0.8
BatchThresholds == {0, 60000, 80000}

\* the embedding model, which gives the unrelated text an angle of its own
BatchMiniLM ==
    Table([t \in ComparableTexts \cup {BatchCatalogue[Len(BatchCatalogue)].question} |->
              IF t \in ComparableTexts THEN MiniLM[t] ELSE 5])

\* self.n_jobs = min(mp.cpu_count(), 8), on a machine with two cores
n_jobs == 2

\* OptimizedQuestionDuplicateDetector(similarity_threshold)
BatchInit ==
    /\ questions \in BatchLists
    /\ heap = [o \in BatchObjs |-> BatchCatalogue[o]]
    /\ similarity_threshold \in BatchThresholds
    /\ sentence_model \in { [loaded |-> FALSE, encode |-> <<>>],
                            [loaded |-> TRUE,  encode |-> BatchMiniLM] }
    /\ detector = "OptimizedQuestionDuplicateDetector"
    /\ use_cache = TRUE
    /\ similarity_cache = <<>>
    /\ op = "init"
    /\ groups = <<>>
    /\ unique_questions = <<>>
    /\ removed_duplicates = <<>>
    /\ annotated = <<>>
    /\ info = NoInfo
    /\ NoRequest
    /\ NoBatch

\* texts = [self._extract_question_text(q) for q in questions]
BatchTexts ==
    List([k \in 1..Len(questions) |-> _extract_question_text(heap[questions[k]])])

\* what the steps of the batch leave alone
batch_frame == <<config, heap, unique_questions, removed_duplicates, annotated,
                 info, server>>

\* find_duplicate_groups_optimized up to the submission of the candidate
\* pairs to the executor: the prefilter fits the vectorizer on the corpus
StartBatch ==
    /\ batch.pc = "idle"
    /\ Len(questions) >= 2
    /\ \E candidate_pairs \in {_find_candidate_pairs(_compute_tfidf_batch(BatchTexts),
                                                     PrefilterThreshold)} :
           batch' = [pc |-> "pool",
                     candidate_pairs |-> candidate_pairs,
                     futures |-> List([k \in 1..Len(candidate_pairs) |->
                                          [pc |-> "submitted", result |-> 0]]),
                     similarity_matrix |->
                         List([i \in 1..Len(questions) |->
                             List([j \in 1..Len(questions) |->
                                 IF i = j THEN 10 * SCALE ELSE 0])])]
    /\ \E normalized \in {SelectSeq(List([k \in 1..Len(questions) |->
                                             normalize_text(BatchTexts[k])]),
                                    LAMBDA t : Strip(t) # <<>>)} :
           vectorizer' = IF Len(normalized) < 2 \/ TfidfVocabulary(normalized) = {}
                         THEN vectorizer
                         ELSE FittedIdf(normalized)
    /\ UNCHANGED <<batch_frame, similarity_cache, op, groups>>

\* a worker thread takes the next pair: _calculate_similarity_optimized up
\* to the fit of the shared vectorizer on the two texts, or to its return
\* when the cache holds the pair
TaskFit ==
    \E k \in 1..Len(batch.futures) :
        /\ batch.pc = "pool"
        /\ batch.futures[k].pc = "submitted"
        /\ \A m \in 1..(k - 1) : batch.futures[m].pc # "submitted"
        /\ Cardinality({ m \in 1..Len(batch.futures) : batch.futures[m].pc = "fitted" })
               < n_jobs
        /\ \E cache_key \in {_get_cache_key(BatchTexts[batch.candidate_pairs[k][1]],
                                            BatchTexts[batch.candidate_pairs[k][2]])} :
               IF use_cache /\ cache_key \in DOMAIN similarity_cache
               THEN /\ batch' = [batch EXCEPT ![("futures")][k] =
                                    [pc |-> "done", result |-> similarity_cache[cache_key]]]
                    /\ UNCHANGED vectorizer
               ELSE /\ batch' = [batch EXCEPT ![("futures")][k].pc = "fitted"]
                    /\ vectorizer' = FittedIdf(<<BatchTexts[batch.candidate_pairs[k][1]],
                                                BatchTexts[batch.candidate_pairs[k][2]]>>)
        /\ UNCHANGED <<batch_frame, similarity_cache, op, groups>>

\* the thread goes on: the transform with the idf the shared vectorizer
\* holds now, the weighted sum, the cache entry and the return
TaskTransform ==
    \E k \in 1..Len(batch.futures) :
        /\ batch.pc = "pool"
        /\ batch.futures[k].pc = "fitted"
        /\ \E text1 \in {BatchTexts[batch.candidate_pairs[k][1]]} :
           \E text2 \in {BatchTexts[batch.candidate_pairs[k][2]]} :
           \E transformed \in {TransformCosine(<<text1, text2>>, vectorizer)} :
           \E combined_similarity \in
                  {Combine(PairSignals[text1, text2].exact,
                           IF sentence_model.loaded
                           THEN EmbeddingCosine(sentence_model.encode[text1],
                                                sentence_model.encode[text2])
                           ELSE 0,
                           IF "raised" \in DOMAIN transformed THEN 0 ELSE transformed.value,
                           PairSignals[text1, text2].keyword)} :
               /\ batch' = [batch EXCEPT ![("futures")][k] =
                               [pc |-> "done", result |-> combined_similarity]]
               /\ similarity_cache' =
                      IF use_cache
                      THEN Table([key \in DOMAIN similarity_cache
                                          \cup {_get_cache_key(text1, text2)} |->
                                     IF key = _get_cache_key(text1, text2)
                                     THEN combined_similarity
                                     ELSE similarity_cache[key]])
                      ELSE similarity_cache
        /\ UNCHANGED <<batch_frame, vectorizer, op, groups>>

\* every future has its result: the matrix is filled and clustered, and
\* find_duplicate_groups_optimized returns
CollectAndCluster ==
    /\ batch.pc = "pool"
    /\ \A k \in 1..Len(batch.futures) : batch.futures[k].pc = "done"
    /\ \E similarity_matrix \in
              {List([i \in 1..Len(questions) |->
                   List([j \in 1..Len(questions) |->
                       IF \E k \in 1..Len(batch.candidate_pairs) :
                              batch.candidate_pairs[k] \in {<<i, j>>, <<j, i>>}
                       THEN batch.futures[CHOOSE k \in 1..Len(batch.candidate_pairs) :
                                batch.candidate_pairs[k] \in {<<i, j>>, <<j, i>>}].result
                       ELSE batch.similarity_matrix[i][j]])])} :
           /\ batch' = [batch EXCEPT !.pc = "done",
                                     !.similarity_matrix = similarity_matrix]
           /\ groups' = _cluster_questions(Len(questions), similarity_matrix,
                                           similarity_threshold)
    /\ op' = "find_duplicate_groups"
    /\ UNCHANGED <<batch_frame, vectorizer, similarity_cache>>

\* find_duplicate_groups_optimized of a list of fewer than two records
ReturnShortList ==
    /\ batch.pc = "idle"
    /\ Len(questions) < 2
    /\ batch' = [batch EXCEPT !.pc = "done"]
    /\ groups' = List([k \in 1..Len(questions) |-> <<k>>])
    /\ op' = "find_duplicate_groups"
    /\ UNCHANGED <<batch_frame, vectorizer, similarity_cache>>

BatchNext ==
    \/ StartBatch
    \/ ReturnShortList
    \/ TaskFit
    \/ TaskTransform
    \/ CollectAndCluster

BatchSpec == BatchInit /\ [][BatchNext]_vars

\* the matrix a single-threaded run of the batch gives for the same
\* candidate pairs, starting from an empty cache
SequentialBatch ==
    _compute_detailed_similarities_batch(sentence_model, use_cache, <<>>,
                                         BatchTexts, batch.candidate_pairs)

\* C27: whatever the interleaving of the worker threads, the similarity
\* matrix is the matrix of a single-threaded run, and so are the groups
C27_ConcurrencyKeepsMatrixAndGroups ==
    (batch.pc = "done" /\ Len(questions) >= 2) =>
        /\ batch.similarity_matrix = SequentialBatch.matrix
        /\ groups = _cluster_questions(Len(questions), SequentialBatch.matrix,
                                       similarity_threshold)

\* the same, for the groups alone
C27_ConcurrencyKeepsGroups ==
    (batch.pc = "done" /\ Len(questions) >= 2) =>
        groups = _cluster_questions(Len(questions), SequentialBatch.matrix,
                                    similarity_threshold)

\* positions i and j are a candidate pair whose computed combined
\* similarity reaches the decision threshold
CandidateLink(i, j) ==
    /\ \E k \in 1..Len(batch.candidate_pairs) :
           batch.candidate_pairs[k] \in {<<i, j>>, <<j, i>>}
    /\ batch.similarity_matrix[i][j] >= similarity_threshold

RECURSIVE CandidateChainFrom(_)
\* the positions joined to a position of S by a chain of such pairs
CandidateChainFrom(S) ==
    LET T == S \cup { j \in 1..Len(questions) : \E i \in S : CandidateLink(i, j) }
    IN  IF T = S THEN S ELSE CandidateChainFrom(T)

\* C26: after find_duplicate_groups_optimized, for every threshold in
\* [0.0, 1.0], two records of the same group are joined by a chain of
\* candidate pairs whose computed combined similarity reaches the threshold
C26_OnlyCandidatePairsAreUnioned ==
    (batch.pc = "done" /\ Len(questions) >= 2) =>
        \A i \in 1..Len(questions), j \in 1..Len(questions) :
            GroupOf(i) = GroupOf(j) => j \in CandidateChainFrom({i})

\* the same for the thresholds above 0.0 only
C26_OnlyCandidatePairsAreUnionedAboveZero ==
    similarity_threshold > 0 => C26_OnlyCandidatePairsAreUnioned

\* ---------------------------------------------------------------------
\* annotate_duplicates called again on the same record objects by a
\* detector constructed with another threshold
\* ---------------------------------------------------------------------
\* longest list annotated repeatedly
RerunLen == 3

RerunLists == { l \in InputLists : Len(l) <= RerunLen }

\* QuestionDuplicateDetector(similarity_threshold) and the caller's records
RerunInit ==
    /\ questions \in RerunLists
    /\ heap = [o \in Objs |-> Catalogue[o]]
    /\ similarity_threshold \in Thresholds
    /\ sentence_model \in SentenceModels
    /\ detector = "QuestionDuplicateDetector"
    /\ use_cache = FALSE
    /\ similarity_cache = <<>>
    /\ op = "init"
    /\ groups = <<>>
    /\ unique_questions = <<>>
    /\ removed_duplicates = <<>>
    /\ annotated = <<>>
    /\ info = NoInfo
    /\ NoRequest
    /\ NoBatch

\* detector = QuestionDuplicateDetector(similarity_threshold=threshold): a
\* new detector with another threshold, for the same record objects
Reconstruct ==
    /\ \E threshold \in Thresholds \ {similarity_threshold} :
           similarity_threshold' = threshold
    /\ op' = "init"
    /\ groups' = <<>>
    /\ unique_questions' = <<>>
    /\ removed_duplicates' = <<>>
    /\ annotated' = <<>>
    /\ info' = NoInfo
    /\ UNCHANGED <<questions, heap, detector, sentence_model, use_cache,
                   similarity_cache, server, pool>>

RerunNext ==
    \/ AnnotateDuplicates
    \/ Reconstruct

RerunSpec == RerunInit /\ [][RerunNext]_vars

\* the fields annotate_duplicates adds to a record
AnnotationFields ==
    {"is_duplicate", "duplicate_group_id", "duplicate_representative",
     "duplicate_similarity"}

\* C28: after annotate_duplicates, a record that the call left in a
\* singleton group carries no annotation field, whatever earlier calls on
\* the same objects did, and so is_duplicate is true only for the members
\* of a group of size > 1 of this call
C28_AnnotationsReflectLatestRun ==
    op = "annotate_duplicates" =>
        \A p \in 1..Len(questions) :
            Len(groups[GroupOf(p)]) = 1 =>
                DOMAIN heap[questions[p]] \cap AnnotationFields = {}

\* ---------------------------------------------------------------------
\* Remove mode run again on the list it kept
\* ---------------------------------------------------------------------
\* the upload removed duplicates and then annotated the list it kept
AnnotatedAfterRemoval ==
    /\ request.endpoint = "upload"
    /\ pc = "done"
    /\ returned.status = 200
    /\ ReportsDetection
    /\ metadata.duplicate_detection.mode = "remove"
    /\ "post_removal_annotation" \in DOMAIN metadata.duplicate_detection

\* C29: in the list kept by remove_duplicates at threshold t no two records
\* have combined similarity >= t, and annotate_duplicates on the kept list
\* with the same threshold, as upload runs it, reports no group of size > 1
C29_RemovalIsIdempotent ==
    AnnotatedAfterRemoval =>
        /\ \A i \in 1..Len(all_questions), j \in 1..Len(all_questions) :
               i # j =>
                   calculate_similarity(sentence_model, heap[all_questions[i]],
                                        heap[all_questions[j]])
                       < request.similarityThreshold
        /\ metadata.duplicate_detection.post_removal_annotation.group_count = 0

====
